---- MODULE Spec2Model ----
(***************************************************************************)
(* Subscription-management API: the subscription lifecycle of              *)
(* UserSubscription (model methods and derived predicates) and the         *)
(* subscribe / upgrade / cancel / indefinite endpoints of the API          *)
(* versions that share one store.                                          *)
(*                                                                         *)
(* Time is counted in whole days since 2025-01-01 (day 0); every           *)
(* timedelta of the code is a whole number of days.  A missing (None)      *)
(* date is NULL.  The in-process caches of the v3 routes live for seconds:  *)
(* secs counts the seconds elapsed within the current day.                 *)
(***************************************************************************)
EXTENDS Integers, Sequences, FiniteSets, TLC

VARIABLES app, users, subs, plans, now, secs, cache, nops, last, req

vars == <<app, users, subs, plans, now, secs, cache, nops, last, req>>

----------------------------------------------------------------------------
(* Bounds of the model: rows in the store, the clock, and the number of     *)
(* requests and calls made                                                 *)

MaxSubs == 2
MaxNow == 1
MaxOps == 2

NULL == 0 - 1

(* the rows of users that exist when the application starts; a            *)
(* subscription refers to a user by the position of the row              *)
User(username, email) == [username |-> username, email |-> email, is_admin |-> FALSE]

(* an e-mail address is the sequence of its parts, so that the test for   *)
(* an '@' in it can be made                                              *)
Email(local, domain) == <<local, "@", domain>>

SeedUsers == <<[User("alice", Email("alice", "example.com")) EXCEPT !.is_admin = TRUE], User("bob", Email("bob", "example.com"))>>

Users == DOMAIN SeedUsers
TickDays == {1}
TrialDayInputs == {0, 1}
RenewDayInputs == {1}

----------------------------------------------------------------------------
(* Enumerations *)

ACTIVE == "active"
CANCELED == "canceled"
EXPIRED == "expired"
PAST_DUE == "past_due"
PENDING == "pending"
TRIAL == "trial"
CHANGED == "changed"
PAUSED == "paused"

SubscriptionStatus == {ACTIVE, CANCELED, EXPIRED, PAST_DUE, PENDING, TRIAL, CHANGED}

PAID == "paid"
FAILED == "failed"
REFUNDED == "refunded"

PaymentStatus == {PAID, PENDING, FAILED, REFUNDED}

MONTHLY == "monthly"
QUARTERLY == "quarterly"
SEMI_ANNUAL == "semi-annual"
ANNUAL == "annual"

SubscriptionInterval == {MONTHLY, QUARTERLY, SEMI_ANNUAL, ANNUAL}

PLAN_ACTIVE == "active"
PLAN_INACTIVE == "inactive"
PLAN_DEPRECATED == "deprecated"

PlanStatus == {PLAN_ACTIVE, PLAN_INACTIVE, PLAN_DEPRECATED}

----------------------------------------------------------------------------
(* Calendar arithmetic of the legacy subscribe endpoint *)

IsLeap(y) == (y % 4 = 0 /\ y % 100 # 0) \/ y % 400 = 0

DaysInYear(y) == IF IsLeap(y) THEN 366 ELSE 365

DaysInMonth(y, m) ==
    IF m = 2 THEN (IF IsLeap(y) THEN 29 ELSE 28)
    ELSE IF m \in {4, 6, 9, 11} THEN 30 ELSE 31

RECURSIVE DaysBeforeMonth(_, _)
DaysBeforeMonth(y, m) ==
    IF m = 1 THEN 0 ELSE DaysBeforeMonth(y, m - 1) + DaysInMonth(y, m - 1)

RECURSIVE DaysBeforeYear(_)
DaysBeforeYear(y) ==
    IF y <= 2025 THEN 0 ELSE DaysBeforeYear(y - 1) + DaysInYear(y - 1)

RECURSIVE YearOfFrom(_, _)
YearOfFrom(y, d) ==
    IF d < DaysInYear(y) THEN y ELSE YearOfFrom(y + 1, d - DaysInYear(y))

YearOf(d) == YearOfFrom(2025, d)

RECURSIVE MonthOfFrom(_, _, _)
MonthOfFrom(y, m, d) ==
    IF d < DaysInMonth(y, m) THEN m ELSE MonthOfFrom(y, m + 1, d - DaysInMonth(y, m))

MonthOf(d) == MonthOfFrom(YearOf(d), 1, d - DaysBeforeYear(YearOf(d)))

DayOf(d) == d - DaysBeforeYear(YearOf(d)) - DaysBeforeMonth(YearOf(d), MonthOf(d)) + 1

DateToDay(y, m, dd) == DaysBeforeYear(y) + DaysBeforeMonth(y, m) + dd - 1

Min(a, b) == IF a < b THEN a ELSE b

(* month = now.month - 1 + duration_months; year = now.year + month // 12;  *)
(* month = month % 12 + 1; datetime(year, month, min(now.day, 28), ...)     *)
AddMonths(d, n) ==
    LET month == MonthOf(d) - 1 + n
        year == YearOf(d) + (month \div 12)
    IN DateToDay(year, (month % 12) + 1, Min(DayOf(d), 28))

----------------------------------------------------------------------------
(* UserSubscription: constructor, derived predicates and model methods.     *)
(* end_naive records that end_date holds a timezone-naive datetime, which   *)
(* is what every DateTime column holds once the row is loaded back from the *)
(* store; the methods assign timezone-aware values (datetime.now(UTC)).     *)

UserSubscription(user_id, plan_id, status, start_date, end_date, trial_end_date, current_period_start, current_period_end, payment_status, quantity, auto_renew, t) ==
    [user_id |-> user_id,
     plan_id |-> plan_id,
     status |-> status,
     start_date |-> IF start_date = NULL THEN t ELSE start_date,
     end_date |-> end_date,
     trial_end_date |-> trial_end_date,
     canceled_at |-> NULL,
     current_period_start |-> IF current_period_start = NULL THEN t ELSE current_period_start,
     current_period_end |-> current_period_end,
     payment_status |-> payment_status,
     quantity |-> quantity,
     cancel_at_period_end |-> FALSE,
     auto_renew |-> auto_renew,
     created_at |-> t,
     end_naive |-> FALSE]

(* A row as the session holds it after commit: attributes are expired and   *)
(* reloaded from the DateTime columns, which carry no timezone.             *)
Stored(s) == [s EXCEPT !.end_naive = (s.end_date # NULL)]

is_active_ge(s, t) ==
    /\ s.status = ACTIVE
    /\ s.start_date <= t
    /\ (s.end_date = NULL \/ s.end_date >= t)

is_active(s, t) ==
    /\ s.status = ACTIVE
    /\ s.start_date <= t
    /\ (s.end_date = NULL \/ s.end_date > t)

is_trial_ge(s, t) ==
    /\ s.status = TRIAL
    /\ s.trial_end_date # NULL
    /\ s.trial_end_date >= t

is_trial(s, t) ==
    /\ s.status = TRIAL
    /\ s.trial_end_date # NULL
    /\ s.trial_end_date > t

activate(s) == [s EXCEPT !.status = ACTIVE]

cancel_stamped(s, at_period_end, t) ==
    IF at_period_end
    THEN [s EXCEPT !.cancel_at_period_end = TRUE, !.auto_renew = FALSE, !.canceled_at = t]
    ELSE [s EXCEPT !.status = CANCELED, !.canceled_at = t, !.end_date = t,
                   !.end_naive = FALSE]

cancel(s, at_period_end, t) ==
    IF at_period_end
    THEN [s EXCEPT !.cancel_at_period_end = TRUE, !.auto_renew = FALSE]
    ELSE [s EXCEPT !.status = CANCELED, !.canceled_at = t, !.end_date = t,
                   !.end_naive = FALSE]

start_trial(s, trial_days, t) ==
    [s EXCEPT !.status = TRIAL, !.trial_end_date = t + trial_days]

(* renew compares end_date with the timezone-aware current_period_end it    *)
(* has just assigned; with a naive end_date the comparison raises TypeError *)
renew_raises(s) == s.end_date # NULL /\ s.end_naive

(* the assignments renew makes before it compares end_date *)
renew_assigned(s, days, t) ==
    [s EXCEPT !.current_period_start = t, !.current_period_end = t + days, !.status = ACTIVE]

renew(s, days, t) ==
    LET r == renew_assigned(s, days, t)
    IN IF s.end_date # NULL /\ ~s.end_naive /\ s.end_date < r.current_period_end
       THEN [r EXCEPT !.end_date = r.current_period_end]
       ELSE r

expire(s, t) ==
    [s EXCEPT !.status = EXPIRED, !.end_date = t, !.auto_renew = FALSE,
              !.end_naive = FALSE]

resume(s) ==
    [s EXCEPT !.status = ACTIVE, !.cancel_at_period_end = FALSE, !.auto_renew = TRUE]

change_plan(s, new_plan_id) == [s EXCEPT !.plan_id = new_plan_id]

----------------------------------------------------------------------------
(* The store and the queries the endpoints run against it *)

Plan(interval, duration_months, status) ==
    [interval |-> interval, duration_months |-> duration_months, status |-> status]

(* the plan catalogues the store starts with *)
Catalogues ==
    {<<Plan(MONTHLY, 1, PLAN_ACTIVE),
       Plan(QUARTERLY, 3, PLAN_ACTIVE),
       Plan(ANNUAL, 12, PLAN_INACTIVE)>>,
     <<Plan(SEMI_ANNUAL, 6, PLAN_ACTIVE),
       Plan(ANNUAL, 12, PLAN_ACTIVE),
       Plan(MONTHLY, 1, PLAN_DEPRECATED)>>}

(* the slot of a deleted row: ids are never reused *)
NoPlan == [interval |-> "none", duration_months |-> 0, status |-> "none"]

PlanIds == {p \in DOMAIN plans : plans[p] # NoPlan}

(* a plan id that no row has, for get_or_404 *)
MissingPlan == Len(plans) + 1

PlanInputs == PlanIds \cup {MissingPlan}

Quantities == {1}

SubIds == DOMAIN subs

(* filter_by(user_id=u, status=ACTIVE): the rows .first() may return; the   *)
(* query has no ORDER BY, so any matching row may come first                *)
ActiveRows(S, u) == {i \in DOMAIN S : S[i].user_id = u /\ S[i].status = ACTIVE}

ActiveRowsWindow(S, u) == {i \in DOMAIN S : S[i].user_id = u /\ is_active(S[i], now)}

(* db.session.add(subscription); db.session.commit() *)
Insert_replacing(S, s) == <<Stored(s)>>

Insert(S, s) == Append(S, Stored(s))

Update(S, i, s) == [S EXCEPT ![i] = Stored(s)]

(* the last request or call made, its arguments, its outcome and the row it *)
(* acted on (0 when none)                                                   *)
NoOp == [op |-> "none", api |-> "none", user |-> 0, plan |-> 0, days |-> 0,
         flag |-> FALSE, result |-> "none", sub |-> 0]

Done(op, api, user, plan, days, flag, result, sub) ==
    [op |-> op, api |-> api, user |-> user, plan |-> plan, days |-> days,
     flag |-> flag, result |-> result, sub |-> sub]

----------------------------------------------------------------------------
(* POST /subscriptions/ : UserSubscriptionList.post in the three versions   *)

Created == "created"
Ok == "ok"
PlanNotFound == "PlanNotFound"
PlanNotActive == "PlanNotActive"
DuplicateActiveSubscription == "DuplicateActiveSubscription"
NoActiveSubscription == "NoActiveSubscription"
SamePlan == "SamePlan"
InternalError == "InternalError"
Forbidden == "Forbidden"

(* v1: get_or_404, then the status test *)
PlanCheckV1(p) ==
    IF p \notin PlanIds THEN PlanNotFound
    ELSE IF plans[p].status # PLAN_ACTIVE THEN PlanNotActive
    ELSE Ok

(* v3: one query filtered on id and status, first_or_404 *)
PlanCheckV3(p) ==
    IF p \notin PlanIds \/ plans[p].status # PLAN_ACTIVE THEN PlanNotFound ELSE Ok

PlanCheck_nostatus(api, p) ==
    IF p \notin PlanIds THEN PlanNotFound ELSE Ok

PlanCheck(api, p) == IF api = "v3" THEN PlanCheckV3(p) ELSE PlanCheckV1(p)

(* the check for an existing subscription: status = ACTIVE only *)
HasActive(S, u) == ActiveRows(S, u) # {}

PeriodDaysV1(interval) ==
    IF interval = ANNUAL THEN 365
    ELSE IF interval = SEMI_ANNUAL THEN 182
    ELSE IF interval = QUARTERLY THEN 90
    ELSE 30

(* v1 evaluates PaymentStatus.TRIAL and v3 SubscriptionStatus.TRIALING when *)
(* trial_days is positive; neither enum has that member: AttributeError     *)
SubscribeRaises(api, trial_days) == api \in {"v1", "v3"} /\ trial_days > 0

NewSubscriptionV1(u, p, quantity, auto_renew, t) ==
    UserSubscription(u, p, ACTIVE, t, NULL, NULL, t,
                     t + PeriodDaysV1(plans[p].interval), PAID, quantity, auto_renew, t)

NewSubscriptionV3(u, p, auto_renew, t) ==
    UserSubscription(u, p, ACTIVE, t, NULL, NULL, t,
                     t + 30 * plans[p].duration_months, PAID, 1, auto_renew, t)

NewSubscriptionLegacy(u, p, trial_days, quantity, auto_renew, t) ==
    LET end_date == IF plans[p].duration_months # 0
                    THEN AddMonths(t, plans[p].duration_months) ELSE NULL
    IN UserSubscription(u, p, IF trial_days > 0 THEN TRIAL ELSE ACTIVE, t, end_date,
                        IF trial_days > 0 THEN t + trial_days ELSE NULL,
                        t, end_date, PAID, quantity, auto_renew, t)

NewSubscription(api, u, p, trial_days, quantity, auto_renew, t) ==
    IF api = "v1" THEN NewSubscriptionV1(u, p, quantity, auto_renew, t)
    ELSE IF api = "v3" THEN NewSubscriptionV3(u, p, auto_renew, t)
    ELSE NewSubscriptionLegacy(u, p, trial_days, quantity, auto_renew, t)

(* the outcome of the checks made before the insert, against the rows S     *)
SubscribeCheck(api, S, u, p, trial_days) ==
    IF PlanCheck(api, p) # Ok THEN PlanCheck(api, p)
    ELSE IF HasActive(S, u) THEN DuplicateActiveSubscription
    ELSE IF SubscribeRaises(api, trial_days) THEN InternalError
    ELSE Created

(* the module-level dicts of the v3 routes *)
EmptyCache ==
    [subscription_cache |-> <<>>,
     subscription_history_cache |-> <<>>,
     plan_list_cache |-> <<>>]

DictSet(d, k, v) == [x \in DOMAIN d \cup {k} |-> IF x = k THEN v ELSE d[x]]

DictDel(d, K) == [x \in DOMAIN d \ K |-> d[x]]

invalidate_subscription_cache(c, user_id) ==
    [c EXCEPT !.subscription_cache = DictDel(@, {user_id})]

(* a string is the sequence of its pieces; a number is formatted as its      *)
(* decimal digits, one piece each                                           *)
DigitChar(d) == <<"0", "1", "2", "3", "4", "5", "6", "7", "8", "9">>[d + 1]

RECURSIVE Str(_)
Str(n) == IF n < 10 THEN <<DigitChar(n)>> ELSE Str(n \div 10) \o <<DigitChar(n % 10)>>

startswith(k, prefix) == Len(k) >= Len(prefix) /\ SubSeq(k, 1, Len(prefix)) = prefix

(* f"user={user_id}|page={page}|per_page={per_page}|status={status}|from={from_date}|to={to_date}" *)
build_subscription_history_cache_key(user_id, page, per_page, status) ==
    <<"user=">> \o Str(user_id) \o <<"|", "page=">> \o Str(page) \o <<"|", "per_page=">> \o Str(per_page) \o <<"|", "status=", status, "|", "from=", "None", "|", "to=", "None">>

invalidate_subscription_history_cache_noSeparator(c, user_id) ==
    [c EXCEPT !.subscription_history_cache = DictDel(@, {k \in DOMAIN @ : startswith(k, <<"user=">> \o Str(user_id))})]

(* the entries whose key starts with f"user={user_id}|" are removed          *)
invalidate_subscription_history_cache(c, user_id) ==
    [c EXCEPT !.subscription_history_cache = DictDel(@, {k \in DOMAIN @ : startswith(k, <<"user=">> \o Str(user_id) \o <<"|">>)})]

invalidate_plan_list_cache(c) == [c EXCEPT !.plan_list_cache = <<>>]

(* what a committed subscription change of the user does to the caches:     *)
(* only the v3 handlers call the invalidation helpers                       *)
Invalidated(api, user_id) ==
    IF api = "v3"
    THEN invalidate_subscription_history_cache(
             invalidate_subscription_cache(cache, user_id), user_id)
    ELSE cache

(* the versioned application routes v1 and v3 over one store; the earlier   *)
(* application routes the unversioned endpoints only                        *)
Apis == IF app = "versioned" THEN {"v1", "v3"} ELSE {"legacy"}

(* a request that commits its change to the store *)
Commit(S) ==
    /\ nops < MaxOps
    /\ subs' = S
    /\ nops' = nops + 1

(* a request that returns before any write *)
Reject ==
    /\ nops < MaxOps
    /\ subs' = subs
    /\ nops' = nops + 1

(* quantity and auto_renew are read from the request body only once the     *)
(* checks have passed                                                       *)
Subscribe(api, u, p, trial_days) ==
    /\ nops < MaxOps
    /\ LET result == SubscribeCheck(api, subs, u, p, trial_days) IN
       /\ result = Created => Len(subs) < MaxSubs
       /\ IF result = Created
          THEN \E quantity \in Quantities, auto_renew \in BOOLEAN :
                 Commit(Insert(subs, NewSubscription(api, u, p, trial_days, quantity, auto_renew, now)))
          ELSE Reject
       /\ cache' = IF result = Created THEN Invalidated(api, u) ELSE cache
       /\ last' = Done("Subscribe", api, u, p, trial_days, FALSE, result,
                       IF result = Created THEN Len(subs) + 1 ELSE 0)
       /\ UNCHANGED <<app, users, secs, plans, now, req>>

----------------------------------------------------------------------------
(* POST /subscriptions/cancel : SubscriptionCancel.post (v1 and v3)         *)

CancelApis == {"v1", "v3"}

CancelFields_keepStatus(s, at_period_end, t) ==
    [s EXCEPT !.canceled_at = t, !.end_date = IF at_period_end THEN @ ELSE t,
              !.cancel_at_period_end = IF at_period_end THEN TRUE ELSE @]

(* the assignments both endpoints make to the row they found *)
CancelFields(s, at_period_end, t) ==
    IF at_period_end
    THEN [s EXCEPT !.canceled_at = t, !.cancel_at_period_end = TRUE]
    ELSE [s EXCEPT !.canceled_at = t, !.status = CANCELED, !.end_date = t]

Cancel_invalidateOnFailure(api, u, at_period_end) ==
    IF ActiveRows(subs, u) = {}
    THEN /\ Reject
         /\ cache' = Invalidated("v3", u)
         /\ last' = Done("Cancel", api, u, 0, 0, at_period_end, NoActiveSubscription, 0)
         /\ UNCHANGED <<app, users, secs, plans, now, req>>
    ELSE \E i \in ActiveRows(subs, u) :
         /\ Commit(Update(subs, i, CancelFields(subs[i], at_period_end, now)))
         /\ cache' = Invalidated(api, u)
         /\ last' = Done("Cancel", api, u, 0, 0, at_period_end, Ok, i)
         /\ UNCHANGED <<app, users, secs, plans, now, req>>

Cancel(api, u, at_period_end) ==
    /\ nops < MaxOps
    /\ IF ActiveRows(subs, u) = {}
       THEN /\ Reject
            /\ last' = Done("Cancel", api, u, 0, 0, at_period_end, NoActiveSubscription, 0)
            /\ UNCHANGED <<app, users, secs, cache, plans, now, req>>
       ELSE \E i \in ActiveRows(subs, u) :
            /\ Commit(Update(subs, i, CancelFields(subs[i], at_period_end, now)))
            /\ cache' = Invalidated(api, u)
            /\ last' = Done("Cancel", api, u, 0, 0, at_period_end, Ok, i)
            /\ UNCHANGED <<app, users, secs, plans, now, req>>

----------------------------------------------------------------------------
(* POST /subscriptions/upgrade : SubscriptionUpgrade.post                   *)

UpgradeCheck_anyplan(api, S, u, p) ==
    IF ~HasActive(S, u) THEN NoActiveSubscription
    ELSE IF p \notin PlanIds THEN PlanNotFound
    ELSE Ok

(* v1 and v3 look the subscription up first, the legacy route the plan      *)
UpgradeCheck(api, S, u, p) ==
    IF api = "legacy"
    THEN IF PlanCheckV1(p) # Ok THEN PlanCheckV1(p)
         ELSE IF ~HasActive(S, u) THEN NoActiveSubscription
         ELSE Ok
    ELSE IF ~HasActive(S, u) THEN NoActiveSubscription
         ELSE PlanCheck(api, p)

UpgradeFields_keepPlan(api, s, p, t) == [s EXCEPT !.payment_status = PAID]

UpgradeFields(api, s, p, t) ==
    IF api = "legacy"
    THEN LET c == change_plan(s, p) IN
         IF plans[p].duration_months # 0
         THEN [c EXCEPT !.current_period_end = AddMonths(t, plans[p].duration_months),
                        !.end_date = AddMonths(t, plans[p].duration_months),
                        !.payment_status = PAID]
         ELSE [c EXCEPT !.payment_status = PAID]
    ELSE [s EXCEPT !.plan_id = p]

Upgrade(api, u, p) ==
    /\ nops < MaxOps
    /\ IF UpgradeCheck(api, subs, u, p) # Ok
       THEN /\ Reject
            /\ last' = Done("Upgrade", api, u, p, 0, FALSE, UpgradeCheck(api, subs, u, p), 0)
            /\ UNCHANGED <<app, users, secs, cache, plans, now, req>>
       ELSE \E i \in ActiveRows(subs, u) :
            /\ IF subs[i].plan_id = p THEN Reject
               ELSE Commit(Update(subs, i, UpgradeFields(api, subs[i], p, now)))
            /\ last' = Done("Upgrade", api, u, p, 0, FALSE,
                            IF subs[i].plan_id = p THEN SamePlan ELSE Ok, i)
            /\ cache' = IF subs[i].plan_id = p THEN cache ELSE Invalidated(api, u)
            /\ UNCHANGED <<app, users, secs, plans, now, req>>

----------------------------------------------------------------------------
(* POST /subscriptions/indefinite : IndefiniteSubscription.post             *)

GrantApis == {"v1", "v3"}

UserNotFound == "UserNotFound"

(* v3 passes is_indefinite=True to UserSubscription.__init__, which has no  *)
(* such parameter: TypeError after the lookups, nothing is committed        *)
GrantCheck(api, S, target, p) ==
    IF api = "v1"
    THEN IF p \notin PlanIds THEN PlanNotFound
         ELSE IF target \notin Users THEN UserNotFound
         ELSE IF HasActive(S, target) THEN DuplicateActiveSubscription
         ELSE Created
    ELSE IF target \notin Users THEN UserNotFound
         ELSE IF p \notin PlanIds THEN PlanNotFound
         ELSE InternalError

NewIndefiniteV1(target, p, quantity, t) ==
    UserSubscription(target, p, ACTIVE, t, NULL, NULL, t, NULL, PAID, quantity, TRUE, t)

(* admin_required answers 403 before the handler reads the request *)
GrantIndefinite(api, is_admin) ==
    /\ nops < MaxOps
    /\ IF ~is_admin
       THEN /\ Reject
            /\ last' = Done("GrantIndefinite", api, 0, 0, 0, FALSE, Forbidden, 0)
            /\ UNCHANGED <<app, users, secs, cache, plans, now, req>>
       ELSE \E target \in Users, p \in PlanInputs :
            LET result == GrantCheck(api, subs, target, p) IN
            /\ result = Created => Len(subs) < MaxSubs
            /\ IF result = Created
               THEN \E quantity \in Quantities :
                      Commit(Insert(subs, NewIndefiniteV1(target, p, quantity, now)))
               ELSE Reject
            /\ last' = Done("GrantIndefinite", api, target, p, 0, TRUE, result,
                            IF result = Created THEN Len(subs) + 1 ELSE 0)
            /\ UNCHANGED <<app, users, secs, cache, plans, now, req>>

----------------------------------------------------------------------------
(* The lifecycle hooks applied to a stored row by a scheduler: load the     *)
(* row, call the method, commit.  A method that raises commits nothing.     *)

Activate(i) ==
    /\ Commit(Update(subs, i, activate(subs[i])))
    /\ last' = Done("Activate", "model", subs[i].user_id, 0, 0, FALSE, Ok, i)
    /\ UNCHANGED <<app, users, secs, cache, plans, now, req>>

StartTrial(i, days) ==
    /\ Commit(Update(subs, i, start_trial(subs[i], days, now)))
    /\ last' = Done("StartTrial", "model", subs[i].user_id, 0, days, FALSE, Ok, i)
    /\ UNCHANGED <<app, users, secs, cache, plans, now, req>>

Renew(i, days) ==
    /\ IF renew_raises(subs[i]) THEN Reject
       ELSE Commit(Update(subs, i, renew(subs[i], days, now)))
    /\ last' = Done("Renew", "model", subs[i].user_id, 0, days, FALSE,
                    IF renew_raises(subs[i]) THEN InternalError ELSE Ok, i)
    /\ UNCHANGED <<app, users, secs, cache, plans, now, req>>

Expire(i) ==
    /\ Commit(Update(subs, i, expire(subs[i], now)))
    /\ last' = Done("Expire", "model", subs[i].user_id, 0, 0, FALSE, Ok, i)
    /\ UNCHANGED <<app, users, secs, cache, plans, now, req>>

Resume(i) ==
    /\ Commit(Update(subs, i, resume(subs[i])))
    /\ last' = Done("Resume", "model", subs[i].user_id, 0, 0, FALSE, Ok, i)
    /\ UNCHANGED <<app, users, secs, cache, plans, now, req>>

(* the wall clock advances; no operation is applied *)
Tick(d) ==
    /\ now + d <= MaxNow
    /\ now' = now + d
    /\ UNCHANGED <<app, users, secs, cache, subs, plans, nops, last, req>>

----------------------------------------------------------------------------
(* The API over one store *)

Init ==
    /\ app \in {"versioned", "legacy"}
    /\ subs = <<>>
    /\ plans \in Catalogues
    /\ users = SeedUsers
    /\ now = 0
    /\ secs = 0
    /\ cache = EmptyCache
    /\ nops = 0
    /\ last = NoOp
    /\ req = <<>>

Next ==
    \/ \E api \in Apis, u \in Users, p \in PlanInputs, td \in TrialDayInputs :
          Subscribe(api, u, p, td)
    \/ \E api \in Apis, u \in Users, p \in PlanInputs : Upgrade(api, u, p)
    \/ \E api \in CancelApis, u \in Users, ape \in BOOLEAN :
          app = "versioned" /\ Cancel(api, u, ape)
    \/ \E api \in GrantApis, adm \in BOOLEAN :
          app = "versioned" /\ GrantIndefinite(api, adm)
    \/ \E i \in SubIds : app = "versioned" /\ Activate(i)
    \/ \E i \in SubIds, d \in TrialDayInputs \ {0} : app = "versioned" /\ StartTrial(i, d)
    \/ \E i \in SubIds, d \in RenewDayInputs : app = "versioned" /\ Renew(i, d)
    \/ \E i \in SubIds : app = "versioned" /\ Expire(i)
    \/ \E i \in SubIds : app = "versioned" /\ Resume(i)
    \/ \E d \in TickDays : Tick(d)

Spec == Init /\ [][Next]_vars

----------------------------------------------------------------------------
(* Properties of the API over one store *)

(* the step is a request or call of the operation op *)
Step(op) ==
    /\ nops' = nops + 1
    /\ last'.op = op

ActiveOrTrialRows(u) ==
    {i \in SubIds : subs[i].user_id = u /\ subs[i].status \in {ACTIVE, TRIAL}}

(* C1: in every reachable state each user has at most one subscription     *)
(* whose status is ACTIVE or TRIAL.                                        *)
C1_AtMostOneActiveOrTrial ==
    \A u \in Users : Cardinality(ActiveOrTrialRows(u)) <= 1

HoldsActiveOrValidTrial(u) ==
    \E i \in SubIds : /\ subs[i].user_id = u
                      /\ (is_active(subs[i], now) \/ is_trial(subs[i], now))

(* C2: a Subscribe by a user who holds an active or valid-trial             *)
(* subscription creates no subscription, whatever the target plan, and is  *)
(* answered DuplicateActiveSubscription for every plan that exists and is  *)
(* active.                                                                 *)
C2_SubscribeWhileActiveOrTrialFails ==
    [][(Step("Subscribe") /\ HoldsActiveOrValidTrial(last'.user))
        => /\ subs' = subs
           /\ last'.result # Created
           /\ (last'.plan \in PlanIds /\ plans[last'.plan].status = PLAN_ACTIVE)
                => last'.result = DuplicateActiveSubscription]_vars

(* C4: a Subscribe to a plan whose status is inactive or deprecated is      *)
(* rejected and leaves the subscriptions unchanged.                        *)
C4_InactivePlanRejected ==
    [][(/\ Step("Subscribe")
        /\ last'.plan \in PlanIds
        /\ plans[last'.plan].status \in {PLAN_INACTIVE, PLAN_DEPRECATED})
        => /\ subs' = subs
           /\ last'.result \in {PlanNotActive, PlanNotFound}]_vars

C4_Witness ==
    /\ last.op = "Subscribe"
    /\ last.plan \in PlanIds
    /\ plans[last.plan].status = PLAN_DEPRECATED
    /\ last.result \in {PlanNotActive, PlanNotFound}
    /\ last.sub = 0

ClaimedPeriodDays(interval) ==
    CASE interval = MONTHLY -> 30
      [] interval = QUARTERLY -> 90
      [] interval = SEMI_ANNUAL -> 182
      [] interval = ANNUAL -> 365

(* C5: a successful v1 or v3 Subscribe with trialDays = 0 creates an ACTIVE, *)
(* PAID subscription with start_date = current_period_start = now and      *)
(* current_period_end = now + 30, 90, 182 or 365 days by the plan interval. *)
C5_SubscribePeriodByInterval ==
    [][(/\ Step("Subscribe")
        /\ last'.api \in {"v1", "v3"}
        /\ last'.result = Created
        /\ last'.days = 0)
        => /\ Len(subs') = Len(subs) + 1
           /\ last'.sub = Len(subs')
           /\ LET s == subs'[Len(subs')] IN
              /\ s.status = ACTIVE
              /\ s.payment_status = PAID
              /\ s.start_date = now
              /\ s.current_period_start = now
              /\ s.current_period_end = now + ClaimedPeriodDays(plans[s.plan_id].interval)]_vars

(* C6: a Subscribe with trialDays > 0 on an active plan, by a user without  *)
(* an ACTIVE or TRIAL subscription, succeeds and creates a TRIAL            *)
(* subscription with trial_end_date = now + trialDays and payment_status   *)
(* PENDING or a trial marker, for which is_trial holds at once.            *)
C6_TrialSubscribeCreatesTrial ==
    [][(/\ Step("Subscribe")
        /\ last'.days > 0
        /\ last'.plan \in PlanIds
        /\ plans[last'.plan].status = PLAN_ACTIVE
        /\ ActiveOrTrialRows(last'.user) = {})
        => /\ last'.result = Created
           /\ Len(subs') = Len(subs) + 1
           /\ LET s == subs'[Len(subs')] IN
              /\ s.status = TRIAL
              /\ s.trial_end_date = now + last'.days
              /\ s.payment_status \in {PENDING, "trial"}
              /\ is_trial(s, now)]_vars

(* C9: Cancel with atPeriodEnd = true leaves the status as it was, ACTIVE;  *)
(* Cancel with atPeriodEnd = false sets status = CANCELED and sets end_date *)
(* and canceled_at to the instant of the cancellation.                     *)
C9_CancelStatus ==
    [][(Step("Cancel") /\ last'.result = Ok)
        => LET i == last'.sub IN
           /\ i \in SubIds
           /\ Len(subs') = Len(subs)
           /\ subs[i].status = ACTIVE
           /\ last'.flag => subs'[i].status = ACTIVE
           /\ ~last'.flag => /\ subs'[i].status = CANCELED
                             /\ subs'[i].end_date # NULL
                             /\ subs'[i].end_date = now
                             /\ subs'[i].canceled_at = now]_vars

C9_Witness ==
    /\ last.op = "Cancel"
    /\ last.result = Ok
    /\ ~last.flag
    /\ subs[last.sub].status = CANCELED
    /\ subs[last.sub].end_date = now
    /\ subs[last.sub].canceled_at = now

(* C10: Cancel with atPeriodEnd = true sets cancel_at_period_end = true,    *)
(* auto_renew = false and canceled_at = now.                               *)
C10_CancelAtPeriodEndSetsAllThree ==
    [][(Step("Cancel") /\ last'.result = Ok /\ last'.flag)
        => LET i == last'.sub IN
           /\ subs'[i].cancel_at_period_end
           /\ ~subs'[i].auto_renew
           /\ subs'[i].canceled_at = now]_vars

----------------------------------------------------------------------------
(* The model class on its own: one UserSubscription object built by the     *)
(* constructor, its methods called on it and its properties read, the       *)
(* session committed, the clock moving between calls                        *)

MaxCalls == 1
MaxClock == 16

ModelTickDays == {1, 15}
ModelTrialDays == {14}
ModelRenewDays == {0, 30}
StartDateInputs == {0, 1}
EndDateInputs == {NULL, 0, 1}
TrialEndInputs == {NULL, 1}

NoCall == [op |-> "none", days |-> 0, flag |-> FALSE, result |-> "none", at |-> 0]

Called(op, days, flag, result, t) ==
    [op |-> op, days |-> days, flag |-> flag, result |-> result, at |-> t]

obj == subs[1]

(* a method call: the object is changed in memory, nothing is committed *)
Call(op, days, flag, s) ==
    /\ nops < MaxCalls
    /\ subs' = <<s>>
    /\ nops' = nops + 1
    /\ last' = Called(op, days, flag, Ok, now)
    /\ UNCHANGED <<app, users, secs, cache, plans, now, req>>

(* a property read *)
Read(op, value) ==
    /\ last' = Called(op, 0, value, Ok, now)
    /\ UNCHANGED <<app, users, secs, cache, subs, plans, now, nops, req>>

Read_is_active == Read("is_active", is_active(obj, now))

Read_is_trial == Read("is_trial", is_trial(obj, now))

Call_activate == Call("activate", 0, FALSE, activate(obj))

Call_cancel(at_period_end) ==
    Call("cancel", 0, at_period_end, cancel(obj, at_period_end, now))

Call_start_trial(trial_days) ==
    Call("start_trial", trial_days, FALSE, start_trial(obj, trial_days, now))

Call_renew(days) ==
    IF renew_raises(obj)
    THEN /\ nops < MaxCalls
         /\ subs' = <<renew_assigned(obj, days, now)>>
         /\ nops' = nops + 1
         /\ last' = Called("renew", days, FALSE, InternalError, now)
         /\ UNCHANGED <<app, users, secs, cache, plans, now, req>>
    ELSE Call("renew", days, FALSE, renew(obj, days, now))

Call_expire == Call("expire", 0, FALSE, expire(obj, now))

Call_resume == Call("resume", 0, FALSE, resume(obj))

(* db.session.commit(): the object is flushed and reloaded on next access *)
SessionCommit ==
    /\ subs' = <<Stored(obj)>>
    /\ UNCHANGED <<app, users, secs, cache, plans, now, nops, last, req>>

ModelTick(d) ==
    /\ now + d <= MaxClock
    /\ now' = now + d
    /\ UNCHANGED <<app, users, secs, cache, subs, plans, nops, last, req>>

InitModel ==
    /\ app = "model"
    /\ plans = <<>>
    /\ users = SeedUsers
    /\ now = 0
    /\ secs = 0
    /\ cache = EmptyCache
    /\ \E status \in SubscriptionStatus, start_date \in StartDateInputs,
          end_date \in EndDateInputs, trial_end_date \in TrialEndInputs :
         subs = <<UserSubscription(1, 1, status, start_date, end_date, trial_end_date,
                                   NULL, NULL, PENDING, 1, TRUE, now)>>
    /\ nops = 0
    /\ last = NoCall
    /\ req = <<>>

NextModel ==
    \/ Read_is_active
    \/ Read_is_trial
    \/ Call_activate
    \/ \E at_period_end \in BOOLEAN : Call_cancel(at_period_end)
    \/ \E trial_days \in ModelTrialDays : Call_start_trial(trial_days)
    \/ \E days \in ModelRenewDays : Call_renew(days)
    \/ Call_expire
    \/ Call_resume
    \/ SessionCommit
    \/ \E d \in ModelTickDays : ModelTick(d)

SpecModel == InitModel /\ [][NextModel]_vars

(* C7: whenever is_active is read, its value is true exactly when status =   *)
(* ACTIVE and start_date <= now and (end_date is null or end_date > now);   *)
(* with end_date = now it is false, with end_date = now + 1 and the other   *)
(* two conditions it is true.                                              *)
C7_IsActiveIff ==
    (last.op = "is_active" /\ last.at = now)
      => /\ last.flag <=> /\ obj.status = ACTIVE
                          /\ obj.start_date <= now
                          /\ (obj.end_date = NULL \/ obj.end_date > now)
         /\ obj.end_date = now => ~last.flag
         /\ (obj.status = ACTIVE /\ obj.start_date <= now /\ obj.end_date = now + 1)
              => last.flag

C7_Witness ==
    /\ last.op = "is_active"
    /\ last.at = now
    /\ obj.status = ACTIVE
    /\ obj.start_date < now
    /\ obj.end_date = now
    /\ ~last.flag

(* C8: whenever is_trial is read, its value is true exactly when status =    *)
(* TRIAL and trial_end_date is set and trial_end_date > now; after           *)
(* start_trial(14), and with no call since, is_trial holds at the instant of *)
(* the call and no longer holds once the clock is 15 days past it.          *)
C8_IsTrialIff ==
    /\ (last.op = "is_trial" /\ last.at = now)
         => (last.flag <=> /\ obj.status = TRIAL
                           /\ obj.trial_end_date # NULL
                           /\ obj.trial_end_date > now)
    /\ (last.op = "start_trial" /\ last.days = 14)
         => /\ obj.status = TRIAL
            /\ obj.trial_end_date = last.at + 14
            /\ now = last.at => is_trial(obj, now)
            /\ now >= last.at + 15 => ~is_trial(obj, now)

C8_Witness ==
    /\ last.op = "start_trial"
    /\ last.days = 14
    /\ now = last.at + 15
    /\ obj.status = TRIAL
    /\ ~is_trial(obj, now)

----------------------------------------------------------------------------
(* Concurrent POST /subscriptions/ requests of one user against the         *)
(* versioned application: each request runs its checks, then adds the row   *)
(* and commits; nothing orders the two requests' steps and the table has no *)
(* uniqueness constraint on (user_id, status)                               *)

Requests == {1, 2}
RaceUser == CHOOSE u \in Users : TRUE

Request(api, p, trial_days, auto_renew) ==
    [api |-> api, user |-> RaceUser, plan |-> p, days |-> trial_days,
     auto_renew |-> auto_renew, pc |-> "check", result |-> "none"]

(* the plan query and the query for an existing ACTIVE subscription         *)
RaceCheck(r) ==
    LET q == req[r]
        result == SubscribeCheck(q.api, subs, q.user, q.plan, q.days) IN
    /\ q.pc = "check"
    /\ req' = [req EXCEPT ![r].pc = IF result = Created THEN "insert" ELSE "done",
                          ![r].result = IF result = Created THEN "none" ELSE result]
    /\ UNCHANGED <<app, users, secs, cache, subs, plans, now, nops, last>>

(* the constructor, db.session.add and db.session.commit                    *)
RaceInsert(r) ==
    LET q == req[r] IN
    /\ q.pc = "insert"
    /\ subs' = Insert(subs, NewSubscription(q.api, q.user, q.plan, q.days, 1, q.auto_renew, now))
    /\ req' = [req EXCEPT ![r].pc = "done", ![r].result = Created]
    /\ cache' = Invalidated(q.api, q.user)
    /\ UNCHANGED <<app, users, secs, plans, now, nops, last>>

InitRace ==
    /\ app = "versioned"
    /\ plans \in Catalogues
    /\ subs = <<>>
    /\ users = SeedUsers
    /\ now = 0
    /\ secs = 0
    /\ cache = EmptyCache
    /\ nops = 0
    /\ last = NoOp
    /\ \E a1 \in {"v1", "v3"}, a2 \in {"v1", "v3"}, p1 \in PlanInputs, p2 \in PlanInputs,
          d1 \in TrialDayInputs, d2 \in TrialDayInputs, r1 \in BOOLEAN, r2 \in BOOLEAN :
         req = <<Request(a1, p1, d1, r1), Request(a2, p2, d2, r2)>>

NextRace ==
    \/ \E r \in Requests : RaceCheck(r)
    \/ \E r \in Requests : RaceInsert(r)

SpecRace == InitRace /\ [][NextRace]_vars

(* C3: of two concurrent Subscribe requests of one user who has no active    *)
(* subscription at most one succeeds, and two ACTIVE subscriptions of the   *)
(* user are never both committed.                                           *)
C3_ConcurrentSubscribeAtMostOne ==
    /\ ~(req[1].result = Created /\ req[2].result = Created)
    /\ Cardinality(ActiveRows(subs, RaceUser)) <= 1

----------------------------------------------------------------------------
(* Properties of Upgrade *)

(* the failures that apply to an Upgrade request in the current state; the  *)
(* current plan is that of the ACTIVE row the handler looked up             *)
UpgradeFailures(u, p, i) ==
    (IF ActiveRows(subs, u) = {} THEN {NoActiveSubscription} ELSE {})
    \cup (IF plans[p].status # PLAN_ACTIVE THEN {PlanNotActive, PlanNotFound} ELSE {})
    \cup (IF i # 0 /\ subs[i].plan_id = p THEN {SamePlan} ELSE {})

(* C12: an Upgrade to the current plan, to a plan that is not active, or by  *)
(* a user without an ACTIVE subscription fails with the error of a failure  *)
(* that applies (SamePlan, the inactive-target error, NoActiveSubscription) *)
(* and leaves every subscription as it was.                                *)
C12_UpgradeFailures ==
    [][(/\ Step("Upgrade")
        /\ last'.plan \in PlanIds
        /\ UpgradeFailures(last'.user, last'.plan, last'.sub) # {})
        => /\ last'.result \in UpgradeFailures(last'.user, last'.plan, last'.sub)
           /\ subs' = subs]_vars

C12_Witness ==
    /\ last.op = "Upgrade"
    /\ last.result = SamePlan
    /\ last.sub \in SubIds
    /\ subs[last.sub].plan_id = last.plan
    /\ subs[last.sub].status = ACTIVE

(* C13: a successful Upgrade sets the plan_id of an ACTIVE subscription of   *)
(* the caller to the new plan, leaves its status ACTIVE and its user_id as  *)
(* it was, creates no subscription and touches no other subscription.      *)
C13_UpgradeChangesPlan ==
    [][(Step("Upgrade") /\ last'.result = Ok)
        => LET i == last'.sub IN
           /\ i \in SubIds
           /\ subs[i].status = ACTIVE
           /\ subs[i].user_id = last'.user
           /\ subs[i].plan_id # last'.plan
           /\ Len(subs') = Len(subs)
           /\ subs'[i].plan_id = last'.plan
           /\ subs'[i].status = ACTIVE
           /\ subs'[i].user_id = last'.user
           /\ \A j \in SubIds \ {i} : subs'[j] = subs[j]]_vars

C13_Witness ==
    /\ last.op = "Upgrade"
    /\ last.result = Ok
    /\ last.sub \in SubIds
    /\ subs[last.sub].plan_id = last.plan
    /\ subs[last.sub].status = ACTIVE
    /\ subs[last.sub].user_id = last.user

\* ---------------------------------------------------------------------
\* Properties of renew
\* ---------------------------------------------------------------------

\* C14: whatever the status of the subscription and whatever days is,
\* renew(days) leaves current_period_end > current_period_start and
\* status = ACTIVE.
C14_RenewLeavesActivePeriod ==
    [][(nops' = nops + 1 /\ last'.op = "renew")
        => /\ obj'.current_period_end > obj'.current_period_start
           /\ obj'.status = ACTIVE]_vars

\* C15: renew (days > 0) on a subscription whose end_date lies in the past
\* succeeds, moves end_date to the new current_period_end and leaves the
\* subscription is_active.
C15_RenewPastEndDateReactivates ==
    [][(/\ nops' = nops + 1
        /\ last'.op = "renew"
        /\ last'.days > 0
        /\ obj.end_date # NULL
        /\ obj.end_date < now)
        => /\ last'.result = Ok
           /\ obj'.end_date = obj'.current_period_end
           /\ is_active(obj', now)]_vars

----------------------------------------------------------------------------
(* DELETE /plans/<id> : SubscriptionPlanResource.delete.  The plan row is    *)
(* deleted through the session; user_subscriptions.plan_id is a NOT NULL     *)
(* foreign key with no cascade and no ON DELETE rule, so the flush fails     *)
(* with IntegrityError while any subscription row references the plan.       *)

PlanInUse == "PlanInUse"
Deleted == "deleted"

References(S, p) == {i \in DOMAIN S : S[i].plan_id = p}

ActiveReferences(S, p) == {i \in References(S, p) : S[i].status = ACTIVE}

DeletePlanCheck(api, S, p) ==
    IF p \notin PlanIds THEN PlanNotFound
    ELSE IF api = "legacy" /\ ActiveReferences(S, p) # {} THEN PlanInUse
    ELSE IF References(S, p) # {} THEN InternalError
    ELSE Deleted

DeletePlan(api, is_admin, p) ==
    LET result == IF is_admin THEN DeletePlanCheck(api, subs, p) ELSE Forbidden IN
    /\ nops < MaxOps
    /\ nops' = nops + 1
    /\ plans' = IF result = Deleted THEN [plans EXCEPT ![p] = NoPlan] ELSE plans
    /\ cache' = IF result = Deleted /\ api = "v3" THEN invalidate_plan_list_cache(cache) ELSE cache
    /\ last' = Done("DeletePlan", api, 0, p, 0, is_admin, result, 0)
    /\ UNCHANGED <<app, users, secs, subs, now, req>>

(* the store at start: empty, or holding a subscription that was cancelled   *)
(* immediately                                                               *)
CanceledRow(u, p) ==
    Update(Insert(<<>>, NewSubscriptionV1(u, p, 1, TRUE, 0)), 1, CancelFields(NewSubscriptionV1(u, p, 1, TRUE, 0), FALSE, 0))

InitPlans ==
    /\ app \in {"versioned", "legacy"}
    /\ plans \in Catalogues
    /\ subs \in {<<>>} \cup (IF app = "versioned" THEN {CanceledRow(u, 1) : u \in Users} ELSE {})
    /\ users = SeedUsers
    /\ now = 0
    /\ secs = 0
    /\ cache = EmptyCache
    /\ nops = 0
    /\ last = NoOp
    /\ req = <<>>

NextPlans ==
    \/ \E api \in Apis, u \in Users, p \in PlanInputs, td \in TrialDayInputs :
          Subscribe(api, u, p, td)
    \/ \E api \in Apis, u \in Users, p \in PlanInputs : Upgrade(api, u, p)
    \/ \E api \in CancelApis, u \in Users, ape \in BOOLEAN :
          app = "versioned" /\ Cancel(api, u, ape)
    \/ \E api \in Apis, adm \in BOOLEAN, p \in PlanInputs : DeletePlan(api, adm, p)
    \/ \E d \in TickDays : Tick(d)

SpecPlans == InitPlans /\ [][NextPlans]_vars

\* C16: in every API version that offers plan deletion, DeletePlan by an
\* administrator on an existing plan is refused, plans and subscriptions
\* unchanged, when some subscription of the plan has status ACTIVE, and
\* succeeds, removing the plan, when none has.
C16_DeletePlanRefusedIffActive ==
    [][(Step("DeletePlan") /\ last'.flag /\ last'.plan \in PlanIds)
        => IF ActiveReferences(subs, last'.plan) # {}
           THEN last'.result # Deleted /\ plans' = plans /\ subs' = subs
           ELSE last'.result = Deleted /\ plans'[last'.plan] = NoPlan]_vars

----------------------------------------------------------------------------
(* Paginated listings.  The v2 endpoints page in SQL (get_public_plans,      *)
(* get_subscription_history: LIMIT/OFFSET with the window count read from    *)
(* the first returned row); v1 and v3 call query.paginate(page, per_page).   *)
(* A listing is taken over the matching rows in their sort order.            *)

MaxTotal == 6
MaxPerPage == 4
MaxPage == 5

MatchingRows(total) == [i \in 1..total |-> i]

(* LIMIT :limit OFFSET :offset *)
LimitOffset(rows, limit, offset) == SubSeq(rows, offset + 1, Min(offset + limit, Len(rows)))

PageCount_floor(total, per_page) == IF total > 0 THEN total \div per_page ELSE 0

PageCount(total, per_page) == IF total > 0 THEN (total + per_page - 1) \div per_page ELSE 0

Listing(op, items, total, page, per_page, pages, result) ==
    [op |-> op, items |-> items, total |-> total, page |-> page, per_page |-> per_page, pages |-> pages, result |-> result]

RawPage(op, rows, page, per_page) ==
    LET results == LimitOffset(rows, per_page, (page - 1) * per_page)
        total == IF results # <<>> THEN Len(rows) ELSE 0
    IN Listing(op, results, total, page, per_page, PageCount(total, per_page), Ok)

get_public_plans(rows, page, per_page) == RawPage("get_public_plans", rows, page, per_page)

get_subscription_history(rows, page, per_page) == RawPage("get_subscription_history", rows, page, per_page)

PageNotFound == "PageNotFound"

(* query.paginate: 404 for a page past the end, total from a COUNT query *)
paginate(rows, page, per_page) ==
    LET items == LimitOffset(rows, per_page, (page - 1) * per_page)
        total == Len(rows)
    IN IF items = <<>> /\ page # 1
       THEN Listing("paginate", <<>>, 0, page, per_page, 0, PageNotFound)
       ELSE Listing("paginate", items, total, page, per_page,
                    IF total = 0 THEN 0 ELSE ((total - 1) \div per_page) + 1, Ok)

List(response) ==
    /\ nops < MaxCalls
    /\ nops' = nops + 1
    /\ last' = response
    /\ UNCHANGED <<app, users, secs, cache, subs, plans, now, req>>

ListPublicPlans == List(get_public_plans(MatchingRows(req.total), req.page, req.per_page))

ListSubscriptionHistory == List(get_subscription_history(MatchingRows(req.total), req.page, req.per_page))

ListPaginate == List(paginate(MatchingRows(req.total), req.page, req.per_page))

InitPage ==
    /\ app = "listing"
    /\ subs = <<>>
    /\ plans = <<>>
    /\ users = SeedUsers
    /\ now = 0
    /\ secs = 0
    /\ cache = EmptyCache
    /\ nops = 0
    /\ last = Listing("none", <<>>, 0, 0, 0, 0, "none")
    /\ req \in [total : 0..MaxTotal, per_page : 1..MaxPerPage, page : 1..MaxPage]

NextPage ==
    \/ ListPublicPlans
    \/ ListSubscriptionHistory
    \/ ListPaginate

SpecPage == InitPage /\ [][NextPage]_vars

Ceil(total, per_page) == CHOOSE c \in 0..total : c * per_page >= total /\ (c - 1) * per_page < total

\* C17: for every total T >= 1, page size n >= 1 and page k with
\* 1 <= k <= ceil(T/n), a paginated listing reports pages = ceil(T/n),
\* returns n items on every page before the last and T mod n items (n when
\* n divides T) on the last page.
C17_Pagination ==
    (/\ last.op # "none"
     /\ req.total >= 1
     /\ req.page <= Ceil(req.total, req.per_page))
      => /\ last.result = Ok
         /\ last.pages = Ceil(req.total, req.per_page)
         /\ req.page < last.pages => Len(last.items) = req.per_page
         /\ req.page = last.pages =>
              Len(last.items) = IF req.total % req.per_page = 0 THEN req.per_page
                                ELSE req.total % req.per_page

C17_Witness ==
    /\ last.op = "get_subscription_history"
    /\ req.page > 1
    /\ req.page = last.pages
    /\ req.total % req.per_page # 0
    /\ Len(last.items) = req.total % req.per_page
    /\ Len(last.items) < req.per_page

----------------------------------------------------------------------------
(* The read endpoints over a store of subscriptions: GET /subscriptions/     *)
(* history (v1, v2, v3) and the active-subscription lookup of v2             *)
(* (get_user_active_subscription) and of the model                           *)
(* (UserSubscription.get_active_subscription).                               *)

QueryRow(u, status, start_date, end_date, trial_end_date) ==
    Stored(UserSubscription(u, 1, status, start_date, end_date, trial_end_date, start_date, NULL, PAID, 1, TRUE, start_date))

QueryRows ==
    {QueryRow(u, ACTIVE, st, e, NULL) : u \in Users, st \in StartDateInputs, e \in {NULL, 1}}
    \cup {QueryRow(u, TRIAL, 0, NULL, te) : u \in Users, te \in {NULL, 1, 2}}
    \cup {QueryRow(u, CANCELED, 0, 0, NULL) : u \in Users}

QueryStores == {<<>>} \cup {<<r>> : r \in QueryRows} \cup {<<r1, r2>> : r1 \in QueryRows, r2 \in QueryRows}

HistoryStatusInputs == {<<>>, <<ACTIVE>>, <<ACTIVE, CANCELED>>}
DateRangeInputs == {<<NULL, NULL>>, <<1, NULL>>, <<NULL, 0>>}
PageInputs == {1, 2}
PerPageInputs == {1}

(* the arguments of the request under study *)
QueryInputs ==
    [api : {"v1", "v2", "v3"}, user : Users, statuses : HistoryStatusInputs, dates : DateRangeInputs, page : PageInputs, per_page : PerPageInputs]

Answer(op, api, user, statuses, from_date, to_date, page, per_page, items, total, result, sub, t) ==
    [op |-> op, api |-> api, user |-> user, statuses |-> statuses, from_date |-> from_date, to_date |-> to_date, page |-> page, per_page |-> per_page, items |-> items, total |-> total, result |-> result, sub |-> sub, at |-> t]

NoAnswer == Answer("none", "none", 0, <<>>, NULL, NULL, 0, 0, <<>>, 0, "none", 0, 0)

Elems(q) == {q[i] : i \in DOMAIN q}

(* the status argument is one string; v1 and v3 split it on commas and test  *)
(* membership, v2 hands the whole string to an equality test                 *)
StatusMatches(api, status, statuses) ==
    IF statuses = <<>> THEN TRUE
    ELSE IF api = "v2" THEN Len(statuses) = 1 /\ status = statuses[1]
    ELSE status \in Elems(statuses)

(* v1 and v2 compare created_at with the date bounds, v3 compares start_date *)
HistoryDate(api, s) == IF api = "v3" THEN s.start_date ELSE s.created_at

HistoryMatches(api, S, u, statuses, from_date, to_date) ==
    {i \in DOMAIN S :
        /\ S[i].user_id = u
        /\ StatusMatches(api, S[i].status, statuses)
        /\ (from_date = NULL \/ HistoryDate(api, S[i]) >= from_date)
        /\ (to_date = NULL \/ HistoryDate(api, S[i]) <= to_date)}

(* ORDER BY created_at DESC: rows created at the same instant come in any order *)
NewestFirst(S, I) ==
    {q \in [1..Cardinality(I) -> I] :
        /\ \A a \in DOMAIN q, b \in DOMAIN q : a # b => q[a] # q[b]
        /\ \A a \in DOMAIN q, b \in DOMAIN q : a < b => S[q[a]].created_at >= S[q[b]].created_at}

GetHistory(api, u, statuses, from_date, to_date, page, per_page) ==
    /\ \E rows \in NewestFirst(subs, HistoryMatches(api, subs, u, statuses, from_date, to_date)) :
         LET listing == IF api = "v2" THEN get_subscription_history(rows, page, per_page)
                        ELSE paginate(rows, page, per_page)
         IN last' = Answer("GetHistory", api, u, statuses, from_date, to_date, page, per_page,
                           listing.items, listing.total, listing.result, 0, now)
    /\ UNCHANGED <<app, users, secs, cache, subs, plans, now, nops, req>>

ValidActiveRows_anytime(S, u, t) == {i \in DOMAIN S : S[i].user_id = u /\ S[i].status = ACTIVE}

ValidActiveRows(S, u, t) ==
    {i \in DOMAIN S :
        /\ S[i].user_id = u
        /\ S[i].status = ACTIVE
        /\ S[i].start_date <= t
        /\ (S[i].end_date = NULL \/ S[i].end_date > t)}

ValidTrialRows(S, u, t) ==
    {i \in DOMAIN S :
        /\ S[i].user_id = u
        /\ S[i].status = TRIAL
        /\ S[i].trial_end_date # NULL
        /\ S[i].trial_end_date > t}

(* LIMIT 1 / first() without ORDER BY: any matching row; 0 stands for None *)
get_active_subscription(S, u, t) ==
    IF ValidActiveRows(S, u, t) # {} THEN ValidActiveRows(S, u, t)
    ELSE IF ValidTrialRows(S, u, t) # {} THEN ValidTrialRows(S, u, t)
    ELSE {0}

GetActiveSources == {"v2", "model"}

GetActive(api, u) ==
    /\ \E i \in get_active_subscription(subs, u, now) :
         last' = Answer("GetActive", api, u, <<>>, NULL, NULL, 0, 0, <<>>, 0,
                        IF i = 0 THEN NoActiveSubscription ELSE Ok, i, now)
    /\ UNCHANGED <<app, users, secs, cache, subs, plans, now, nops, req>>

InitQuery ==
    /\ app = "versioned"
    /\ subs \in QueryStores
    /\ plans = CHOOSE c \in Catalogues : TRUE
    /\ users = SeedUsers
    /\ now = 0
    /\ secs = 0
    /\ cache = EmptyCache
    /\ nops = 0
    /\ last = NoAnswer
    /\ req \in QueryInputs

NextQuery ==
    \/ GetHistory(req.api, req.user, req.statuses, req.dates[1], req.dates[2], req.page, req.per_page)
    \/ \E api \in GetActiveSources : GetActive(api, req.user)
    \/ \E d \in TickDays : Tick(d)

SpecQuery == InitQuery /\ [][NextQuery]_vars

ClaimedHistory(u, statuses, from_date, to_date) ==
    {i \in SubIds :
        /\ subs[i].user_id = u
        /\ (statuses = <<>> \/ \E k \in DOMAIN statuses : subs[i].status = statuses[k])
        /\ (from_date = NULL \/ subs[i].created_at >= from_date)
        /\ (to_date = NULL \/ subs[i].created_at <= to_date)}

\* C18: the history endpoints of v1, v2 and v3 return only subscriptions of
\* the user whose status is in the given status set and whose creation time
\* lies in [fromDate, toDate], newest created first, and the total is the
\* number of subscriptions matching exactly those filters.
C18_HistoryFiltersAndTotal ==
    (last.op = "GetHistory" /\ last.result = Ok)
      => LET M == ClaimedHistory(last.user, last.statuses, last.from_date, last.to_date)
         IN /\ \A k \in DOMAIN last.items : last.items[k] \in M
            /\ \A a \in DOMAIN last.items, b \in DOMAIN last.items :
                 a < b => subs[last.items[a]].created_at >= subs[last.items[b]].created_at
            /\ last.total = Cardinality(M)

\* C19: the active-subscription lookup for user u returns a subscription of
\* u with status ACTIVE, start_date <= now and (end_date null or > now)
\* whenever one exists; otherwise a subscription of u with status TRIAL and
\* trial_end_date > now whenever one exists; otherwise not-found; it never
\* returns a subscription of another user.
C19_ActiveLookup ==
    (last.op = "GetActive" /\ last.at = now)
      => LET u == last.user
             A == {i \in SubIds : /\ subs[i].user_id = u
                                  /\ subs[i].status = ACTIVE
                                  /\ subs[i].start_date <= now
                                  /\ (subs[i].end_date = NULL \/ subs[i].end_date > now)}
             T == {i \in SubIds : /\ subs[i].user_id = u
                                  /\ subs[i].status = TRIAL
                                  /\ subs[i].trial_end_date # NULL
                                  /\ subs[i].trial_end_date > now}
         IN /\ A # {} => last.result = Ok /\ last.sub \in A
            /\ (A = {} /\ T # {}) => last.result = Ok /\ last.sub \in T
            /\ (A = {} /\ T = {}) => last.result = NoActiveSubscription /\ last.sub = 0
            /\ last.sub # 0 => subs[last.sub].user_id = u

C19_Witness ==
    /\ last.op = "GetActive"
    /\ last.at = now
    /\ last.result = Ok
    /\ subs[last.sub].status = TRIAL
    /\ subs[last.sub].user_id = last.user
    /\ \E i \in SubIds : /\ subs[i].user_id = last.user
                         /\ subs[i].status = ACTIVE
                         /\ subs[i].end_date # NULL
                         /\ subs[i].end_date <= now

----------------------------------------------------------------------------
(* The v3 read endpoints and their in-process caches.  The caches are        *)
(* module-level dicts of the v3 routes: GET /subscriptions/active caches the *)
(* row it returns under the user id, GET /subscriptions/history caches its   *)
(* first page; an entry is served while expires_at > time.  The v1 handlers  *)
(* work on the same store and know nothing of the caches.                    *)

CACHE_TTL == 300
MaxTicks == 1

TickSeconds == CACHE_TTL

(* the rows a cached answer holds are the objects as loaded at that time;  *)
(* a lookup yields <<value>> on a hit and <<>> (None) otherwise             *)
get_cached_active_subscription(c, user_id, t) ==
    IF user_id \in DOMAIN c.subscription_cache /\ c.subscription_cache[user_id].expires_at > t
    THEN <<c.subscription_cache[user_id].subscription>>
    ELSE <<>>

cache_active_subscription(c, user_id, subscription, t) ==
    [c EXCEPT !.subscription_cache = DictSet(@, user_id, [subscription |-> subscription, expires_at |-> t + CACHE_TTL])]

get_cached_subscription_history(c, key, t) ==
    IF key \in DOMAIN c.subscription_history_cache /\ c.subscription_history_cache[key].expires_at > t
    THEN <<c.subscription_history_cache[key].data>>
    ELSE <<>>

(* an expired history entry is deleted by the lookup that finds it *)
drop_expired_subscription_history(c, key, t) ==
    IF key \in DOMAIN c.subscription_history_cache /\ c.subscription_history_cache[key].expires_at <= t
    THEN [c EXCEPT !.subscription_history_cache = DictDel(@, {key})]
    ELSE c

set_cached_subscription_history(c, key, data, t) ==
    [c EXCEPT !.subscription_history_cache = DictSet(@, key, [data |-> data, expires_at |-> t + CACHE_TTL])]

Served(op, u, rows, total, result, cached) ==
    [op |-> op, api |-> "v3", user |-> u, rows |-> rows, total |-> total, result |-> result, cached |-> cached, at |-> secs]

(* GET /api/v3/subscriptions/active *)
GetActiveV3(u) ==
    LET hit == get_cached_active_subscription(cache, u, secs) IN
    /\ IF hit # <<>>
       THEN /\ last' = Served("GetActiveV3", u, hit, 1, Ok, TRUE)
            /\ cache' = cache
       ELSE IF ActiveRows(subs, u) = {}
       THEN /\ last' = Served("GetActiveV3", u, <<>>, 0, NoActiveSubscription, FALSE)
            /\ cache' = cache
       ELSE \E i \in ActiveRows(subs, u) :
            /\ last' = Served("GetActiveV3", u, <<subs[i]>>, 1, Ok, FALSE)
            /\ cache' = cache_active_subscription(cache, u, subs[i], secs)
    /\ UNCHANGED <<app, users, secs, subs, plans, now, nops, req>>

(* GET /api/v3/subscriptions/history, first page of ten, no filter *)
GetHistoryV3(u) ==
    LET key == build_subscription_history_cache_key(u, 1, 10, "")
        hit == get_cached_subscription_history(cache, key, secs)
    IN
    /\ IF hit # <<>>
       THEN /\ last' = Served("GetHistoryV3", u, hit[1].rows, hit[1].total, Ok, TRUE)
            /\ cache' = cache
       ELSE \E order \in NewestFirst(subs, HistoryMatches("v3", subs, u, <<>>, NULL, NULL)) :
            LET listing == paginate(order, 1, 10)
                rows == [k \in DOMAIN listing.items |-> subs[listing.items[k]]]
                data == [rows |-> rows, total |-> listing.total]
            IN /\ last' = Served("GetHistoryV3", u, rows, listing.total, Ok, FALSE)
               /\ cache' = set_cached_subscription_history(drop_expired_subscription_history(cache, key, secs), key, data, secs)
    /\ UNCHANGED <<app, users, secs, subs, plans, now, nops, req>>

TickSecs(d) ==
    /\ secs + d <= MaxTicks * TickSeconds
    /\ secs' = secs + d
    /\ UNCHANGED <<app, users, cache, subs, plans, now, nops, last, req>>

InitCache ==
    /\ app = "versioned"
    /\ plans = CHOOSE c \in Catalogues : TRUE
    /\ subs \in {<<>>, Insert(<<>>, NewSubscriptionV3(RaceUser, 1, TRUE, 0))}
    /\ users = SeedUsers
    /\ now = 0
    /\ secs = 0
    /\ cache = EmptyCache
    /\ nops = 0
    /\ last = NoOp
    /\ req = <<>>

NextCache ==
    \/ \E api \in Apis, u \in Users : Subscribe(api, u, 1, 0)
    \/ \E api \in CancelApis, u \in Users : Cancel(api, u, FALSE)
    \/ \E u \in Users : GetActiveV3(u)
    \/ \E u \in Users : GetHistoryV3(u)
    \/ TickSecs(TickSeconds)

SpecCache == InitCache /\ [][NextCache]_vars

\* C11: Cancel for a user who has no subscription with status ACTIVE fails
\* with NoActiveSubscription and changes no subscription and no cache entry.
C11_CancelWithoutActive ==
    [][(Step("Cancel") /\ \A i \in SubIds : ~(subs[i].user_id = last'.user /\ subs[i].status = ACTIVE))
        => /\ last'.result = NoActiveSubscription
           /\ subs' = subs
           /\ cache' = cache]_vars

C11_Witness ==
    /\ last.op = "Cancel"
    /\ last.result = NoActiveSubscription
    /\ last.user \in DOMAIN cache.subscription_cache
    /\ \E i \in SubIds : subs[i].user_id = last.user /\ subs[i].status = CANCELED

\* C20: every operation that mutates a user's subscriptions, through any API
\* version on the store, has removed that user's active-subscription and
\* history cache entries when it returns.
C20_MutationInvalidates ==
    [][(/\ nops' = nops + 1
        /\ last'.op \in {"Subscribe", "Cancel"}
        /\ last'.result \in {Created, Ok})
        => /\ last'.user \notin DOMAIN cache'.subscription_cache
           /\ \A k \in DOMAIN cache'.subscription_history_cache : ~startswith(k, <<"user=">> \o Str(last'.user) \o <<"|">>)]_vars

----------------------------------------------------------------------------
(* The remaining lifecycle methods of UserSubscription, called on one        *)
(* object, in the model of the versioned application and in the model of     *)
(* the unversioned one.  The two differ: the unversioned expire does not     *)
(* touch auto_renew, and the SubscriptionStatus enum of the versioned model  *)
(* has no PAUSED member, so its pause raises AttributeError before it        *)
(* assigns anything.                                                         *)

LegacySubscriptionStatus == {ACTIVE, CANCELED, EXPIRED, PENDING, TRIAL, PAST_DUE, PAUSED}

StatusesOf(a) == IF a = "versioned" THEN SubscriptionStatus ELSE LegacySubscriptionStatus

\* Every datetime of the unversioned model is naive (utcnow), so its end_date
\* never mismatches the clock it is compared with: end_naive stays FALSE.
expire_legacy(s, t) == [s EXCEPT !.status = EXPIRED, !.end_date = t, !.end_naive = FALSE]

expire_of(a, s, t) == IF a = "versioned" THEN expire(s, t) ELSE expire_legacy(s, t)

pause_raises(a) == PAUSED \notin StatusesOf(a)

pause(s) == [s EXCEPT !.status = PAUSED]

update_payment_status_keepStatus(s, status) == [s EXCEPT !.payment_status = status]

update_payment_status(s, status) ==
    IF status = FAILED
    THEN [s EXCEPT !.payment_status = status, !.status = PAST_DUE]
    ELSE [s EXCEPT !.payment_status = status]

PaymentStatusInputs == PaymentStatus \cup {"unknown"}

Invoked(op, arg, result, t) == [op |-> op, arg |-> arg, result |-> result, at |-> t]

Invoke(op, arg, result, s) ==
    /\ nops < MaxOps
    /\ nops' = nops + 1
    /\ subs' = <<s>>
    /\ last' = Invoked(op, arg, result, now)
    /\ UNCHANGED <<app, users, secs, cache, plans, now, req>>

Do_expire == Invoke("expire", "", Ok, expire_of(app, obj, now))

Do_pause ==
    IF pause_raises(app) THEN Invoke("pause", "", InternalError, obj)
    ELSE Invoke("pause", "", Ok, pause(obj))

Do_resume == Invoke("resume", "", Ok, resume(obj))

Do_update_payment_status(status) ==
    Invoke("update_payment_status", status, Ok, update_payment_status(obj, status))

LifecycleObjects(a) ==
    {[UserSubscription(1, 1, status, 0, end_date, NULL, NULL, NULL, payment_status, 1, auto_renew, 0)
        EXCEPT !.cancel_at_period_end = cancel_at_period_end] :
       status \in StatusesOf(a), end_date \in EndDateInputs, payment_status \in {PAID, PENDING},
       auto_renew \in BOOLEAN, cancel_at_period_end \in BOOLEAN}

InitLifecycle ==
    /\ app \in {"versioned", "legacy"}
    /\ plans = <<>>
    /\ users = SeedUsers
    /\ now = 0
    /\ secs = 0
    /\ cache = EmptyCache
    /\ \E s \in LifecycleObjects(app) : subs = <<s>>
    /\ nops = 0
    /\ last = Invoked("none", "", "none", 0)
    /\ req = <<>>

NextLifecycle ==
    \/ Do_expire
    \/ Do_pause
    \/ Do_resume
    \/ \E status \in PaymentStatusInputs : Do_update_payment_status(status)
    \/ \E d \in TickDays : Tick(d)

SpecLifecycle == InitLifecycle /\ [][NextLifecycle]_vars

DateFields(s) ==
    <<s.start_date, s.end_date, s.trial_end_date, s.canceled_at, s.current_period_start, s.current_period_end, s.created_at>>

\* C28: Expire() applied to a subscription in any state sets status =
\* EXPIRED, end_date = now and auto_renew = false, so is_active is false
\* afterwards.
C28_ExpireSetsAll ==
    [][Step("expire")
        => /\ obj'.status = EXPIRED
           /\ obj'.end_date = now
           /\ obj'.auto_renew = FALSE
           /\ ~is_active(obj', now)]_vars

\* C29: Pause() moves a subscription to status PAUSED without changing any
\* date field, and a following Resume() returns it to status ACTIVE with
\* cancel_at_period_end = false and auto_renew = true.
C29_PauseThenResume ==
    [][/\ Step("pause")
          => /\ last'.result = Ok
             /\ obj'.status = PAUSED
             /\ DateFields(obj') = DateFields(obj)
       /\ (last.op = "pause" /\ Step("resume"))
          => /\ obj'.status = ACTIVE
             /\ obj'.cancel_at_period_end = FALSE
             /\ obj'.auto_renew = TRUE]_vars

\* C30: UpdatePaymentStatus(s) sets payment_status = s; the subscription
\* status becomes PAST_DUE when s = FAILED, and for every other s the
\* subscription status and all other fields are left unchanged.
C30_UpdatePaymentStatus ==
    [][Step("update_payment_status")
        => /\ obj'.payment_status = last'.arg
           /\ last'.arg = FAILED => obj'.status = PAST_DUE
           /\ last'.arg # FAILED => obj'.status = obj.status
           /\ \A f \in DOMAIN obj \ {"payment_status", "status"} : obj'[f] = obj[f]]_vars

C30_Witness ==
    /\ last.op = "update_payment_status"
    /\ last.arg = FAILED
    /\ obj.payment_status = FAILED
    /\ obj.status = PAST_DUE
    /\ obj.auto_renew
    /\ obj.end_date # NULL

----------------------------------------------------------------------------
(* SubscriptionPlan.monthly_price, read on a plan object.  price is a        *)
(* Numeric(10, 2), held here as a whole number of cents; the value of the    *)
(* Python division price / duration_months is held as the fraction           *)
(* <<numerator, denominator>> in lowest terms, in cents.                      *)

MaxPrice == 12

MaxMonths == 12

PriceInputs == 0 .. MaxPrice

DurationInputs == 0 .. MaxMonths

RECURSIVE Gcd(_, _)
Gcd(a, b) == IF b = 0 THEN a ELSE Gcd(b, a % b)

TrueDiv(a, b) == LET g == Gcd(a, b) IN <<a \div g, b \div g>>

monthly_price_undivided(p) == <<p.price, 1>>

monthly_price(p) ==
    IF p.duration_months = 0 THEN <<p.price, 1>> ELSE TrueDiv(p.price, p.duration_months)

PricedPlan(price, duration_months) == [price |-> price, duration_months |-> duration_months]

PriceRead(op, value) == [op |-> op, value |-> value]

Read_monthly_price ==
    /\ nops < MaxOps
    /\ nops' = nops + 1
    /\ last' = PriceRead("monthly_price", monthly_price(req))
    /\ UNCHANGED <<app, users, subs, plans, now, secs, cache, req>>

Set_price(price) ==
    /\ nops < MaxOps
    /\ nops' = nops + 1
    /\ req' = [req EXCEPT !.price = price]
    /\ last' = PriceRead("price", <<price, 1>>)
    /\ UNCHANGED <<app, users, subs, plans, now, secs, cache>>

InitPrice ==
    /\ app = "plan"
    /\ subs = <<>>
    /\ plans = <<>>
    /\ users = SeedUsers
    /\ now = 0
    /\ secs = 0
    /\ cache = EmptyCache
    /\ nops = 0
    /\ last = PriceRead("none", <<0, 1>>)
    /\ \E price \in PriceInputs, duration_months \in DurationInputs :
          req = PricedPlan(price, duration_months)

NextPrice ==
    \/ Read_monthly_price
    \/ \E price \in PriceInputs : Set_price(price)

SpecPrice == InitPrice /\ [][NextPrice]_vars

\* C26: monthly_price(P) = P.price / P.duration_months when
\* P.duration_months > 0, and = P.price when P.duration_months = 0.
C26_MonthlyPrice ==
    last.op = "monthly_price"
        => /\ last.value[2] > 0
           /\ req.duration_months > 0
                => last.value[1] * req.duration_months = req.price * last.value[2]
           /\ req.duration_months = 0 => last.value = <<req.price, 1>>

C26_Witness ==
    /\ last.op = "monthly_price"
    /\ req.duration_months = 3
    /\ req.price = 10
    /\ last.value = <<10, 3>>

----------------------------------------------------------------------------
\* C27: GrantIndefinite invoked by an admin for an existing user and plan
\* succeeds and creates an ACTIVE subscription for the target user with no
\* period end and with auto_renew = false.
C27_GrantIndefinite ==
    [][(Step("GrantIndefinite") /\ last'.flag /\ last'.user \in Users /\ last'.plan \in PlanIds)
        => /\ last'.result = Created
           /\ last'.sub \in DOMAIN subs' \ DOMAIN subs
           /\ subs'[last'.sub].user_id = last'.user
           /\ subs'[last'.sub].status = ACTIVE
           /\ subs'[last'.sub].current_period_end = NULL
           /\ subs'[last'.sub].auto_renew = FALSE]_vars

----------------------------------------------------------------------------
(* The administration endpoints of the versioned application: plan create,   *)
(* update and delete (v1, v3), the indefinite grant (v1, v3) and the two     *)
(* reports of v2.  admin_required answers 403 before the handler runs.  The  *)
(* repository holds two revisions of the v2 routes: the one under            *)
(* src/app/api/v2 decorates its reports with jwt_required only and tests a   *)
(* local is_admin that is always True ("v2_draft" below).                    *)
(* subscription_plans carries UNIQUE (name, interval); the handlers do not   *)
(* test it, so a duplicate pair fails the commit with IntegrityError.        *)

MaxPlans == 2

PlanNames == {"Basic", "Pro"}

PlanIntervalInputs == {MONTHLY, ANNUAL}

PlanApis == {"v1", "v3"}

ReportApis == {"v2", "v2_draft"}

NamedPlan(name, interval, duration_months, status) ==
    [name |-> name, interval |-> interval, duration_months |-> duration_months, status |-> status]

PlanBody(name, interval) == [name |-> name, interval |-> interval]

PairTaken_nameOnly(P, name, interval, except) ==
    \E i \in DOMAIN P \ {except} : P[i] # NoPlan /\ P[i].name = name

PairTaken(P, name, interval, except) ==
    \E i \in DOMAIN P \ {except} : P[i] # NoPlan /\ P[i].name = name /\ P[i].interval = interval

CreatePlanCheck(P, name, interval) ==
    IF PairTaken(P, name, interval, 0) THEN InternalError ELSE Created

CreatePlan(api, is_admin, name, interval) ==
    LET result == IF is_admin THEN CreatePlanCheck(plans, name, interval) ELSE Forbidden IN
    /\ nops < MaxOps
    /\ nops' = nops + 1
    /\ result = Created => Len(plans) < MaxPlans
    /\ plans' = IF result = Created
                THEN Append(plans, NamedPlan(name, interval, 1, PLAN_ACTIVE))
                ELSE plans
    /\ cache' = IF result = Created /\ api = "v3" THEN invalidate_plan_list_cache(cache) ELSE cache
    /\ req' = PlanBody(name, interval)
    /\ last' = Done("CreatePlan", api, 0, IF result = Created THEN Len(plans) + 1 ELSE 0, 0, is_admin, result, 0)
    /\ UNCHANGED <<app, users, secs, subs, now>>

UpdatePlanCheck(P, p, name, interval) ==
    IF p \notin PlanIds THEN PlanNotFound
    ELSE IF PairTaken(P, name, interval, p) THEN InternalError
    ELSE Ok

UpdatePlan(api, is_admin, p, name, interval) ==
    LET result == IF is_admin THEN UpdatePlanCheck(plans, p, name, interval) ELSE Forbidden IN
    /\ nops < MaxOps
    /\ nops' = nops + 1
    /\ plans' = IF result = Ok
                THEN [plans EXCEPT ![p].name = name, ![p].interval = interval]
                ELSE plans
    /\ cache' = IF result = Ok /\ api = "v3" THEN invalidate_plan_list_cache(cache) ELSE cache
    /\ req' = PlanBody(name, interval)
    /\ last' = Done("UpdatePlan", api, 0, p, 0, is_admin, result, 0)
    /\ UNCHANGED <<app, users, secs, subs, now>>

AdminGate(api, is_admin) == IF api = "v2_draft" THEN TRUE ELSE is_admin

Report(op, api, is_admin) ==
    /\ nops < MaxOps
    /\ nops' = nops + 1
    /\ last' = Done(op, api, 0, 0, 0, is_admin, IF AdminGate(api, is_admin) THEN Ok ELSE Forbidden, 0)
    /\ UNCHANGED <<app, users, secs, cache, subs, plans, now, req>>

GetStats(api, is_admin) == Report("GetStats", api, is_admin)

GetExpiring(api, is_admin) == Report("GetExpiring", api, is_admin)

InitAdmin ==
    /\ app = "versioned"
    /\ plans \in {<<>>, <<NamedPlan("Basic", MONTHLY, 1, PLAN_ACTIVE)>>}
    /\ subs = <<>>
    /\ users = SeedUsers
    /\ now = 0
    /\ secs = 0
    /\ cache = EmptyCache
    /\ nops = 0
    /\ last = NoOp
    /\ req = PlanBody("", "")

NextAdmin ==
    \/ \E api \in PlanApis, adm \in BOOLEAN, name \in PlanNames, interval \in PlanIntervalInputs :
          CreatePlan(api, adm, name, interval)
    \/ \E api \in PlanApis, adm \in BOOLEAN, p \in PlanInputs, name \in PlanNames, interval \in PlanIntervalInputs :
          UpdatePlan(api, adm, p, name, interval)
    \/ \E api \in PlanApis, adm \in BOOLEAN, p \in PlanInputs : DeletePlan(api, adm, p)
    \/ \E api \in GrantApis, adm \in BOOLEAN : GrantIndefinite(api, adm)
    \/ \E api \in ReportApis, adm \in BOOLEAN : GetStats(api, adm)
    \/ \E api \in ReportApis, adm \in BOOLEAN : GetExpiring(api, adm)

SpecAdmin == InitAdmin /\ [][NextAdmin]_vars

PrivilegedOps == {"CreatePlan", "UpdatePlan", "DeletePlan", "GrantIndefinite", "GetStats", "GetExpiring"}

\* C23: every privileged operation (plan create, update, delete,
\* GrantIndefinite, admin statistics, expiring-subscriptions listing)
\* invoked with an absent or false admin assertion returns Forbidden and
\* leaves plans and subscriptions unchanged.
C23_PrivilegedNeedAdmin ==
    [][(\E op \in PrivilegedOps : Step(op)) /\ ~last'.flag
        => /\ last'.result = Forbidden
           /\ plans' = plans
           /\ subs' = subs]_vars

PairExists(P, name, interval) ==
    \E i \in DOMAIN P : P[i] # NoPlan /\ <<P[i].name, P[i].interval>> = <<name, interval>>

PairsDistinct(P) ==
    \A i, j \in DOMAIN P :
        (i # j /\ P[i] # NoPlan /\ P[j] # NoPlan)
            => <<P[i].name, P[i].interval>> # <<P[j].name, P[j].interval>>

\* C25: no two plans share the same (name, interval) pair: creating a plan
\* with an existing pair, or renaming a plan to one, is rejected and leaves
\* the plans unchanged, while the same name with a different interval is
\* accepted.
C25_NameIntervalUnique ==
    [][/\ PairsDistinct(plans')
       /\ (Step("CreatePlan") /\ last'.flag)
          => IF PairExists(plans, req'.name, req'.interval)
             THEN last'.result # Created /\ plans' = plans
             ELSE /\ last'.result = Created
                  /\ Len(plans') = Len(plans) + 1
                  /\ PairExists(plans', req'.name, req'.interval)
       /\ (Step("UpdatePlan") /\ last'.flag /\ last'.plan \in PlanIds)
          => IF PairExists([plans EXCEPT ![last'.plan] = NoPlan], req'.name, req'.interval)
             THEN last'.result # Ok /\ plans' = plans
             ELSE /\ last'.result = Ok
                  /\ <<plans'[last'.plan].name, plans'[last'.plan].interval>> = <<req'.name, req'.interval>>]_vars

C25_Witness ==
    /\ last.op = "CreatePlan"
    /\ last.result = Created
    /\ Len(plans) = 2
    /\ plans[1] # NoPlan
    /\ plans[2] # NoPlan
    /\ plans[1].name = plans[2].name
    /\ plans[1].interval # plans[2].interval

----------------------------------------------------------------------------
(* POST /auth/register : UserRegistration.post.  The handler validates the   *)
(* body, then adds the user and commits; users.username and users.email      *)
(* each carry a unique index, so the commit of a duplicate raises            *)
(* IntegrityError, which the handler turns into 409.                         *)

MaxUsers == 3

MinPasswordLength == 6

Conflict == "Conflict"
ValidationError == "ValidationError"

UsernameInputs == {"alice", "carol"}

EmailInputs == {Email("alice", "example.com"), Email("carol", "example.com"), <<"carol">>}

PasswordLengths == {MinPasswordLength - 1, MinPasswordLength}

Registration(op, complete, username, email, password_len, result) ==
    [op |-> op, complete |-> complete, username |-> username, email |-> email,
     password_len |-> password_len, result |-> result]

Held_usernameOnly(U, username, email) ==
    \E i \in DOMAIN U : U[i].username = username

Held(U, username, email) ==
    \E i \in DOMAIN U : U[i].username = username \/ U[i].email = email

RegisterCheck(U, complete, username, email, password_len) ==
    IF ~complete THEN ValidationError
    ELSE IF \A i \in DOMAIN email : email[i] # "@" THEN ValidationError
    ELSE IF password_len < MinPasswordLength THEN ValidationError
    ELSE IF Held(U, username, email) THEN Conflict
    ELSE Created

Register(complete, username, email, password_len) ==
    LET result == RegisterCheck(users, complete, username, email, password_len) IN
    /\ nops < MaxOps
    /\ nops' = nops + 1
    /\ result = Created => Len(users) < MaxUsers
    /\ users' = IF result = Created THEN Append(users, User(username, email)) ELSE users
    /\ last' = Registration("Register", complete, username, email, password_len, result)
    /\ UNCHANGED <<app, subs, plans, now, secs, cache, req>>

InitUsers ==
    /\ app \in {"versioned", "legacy"}
    /\ users \in {<<>>, SeedUsers}
    /\ subs = <<>>
    /\ plans = <<>>
    /\ now \in 0 .. MaxNow
    /\ secs = 0
    /\ cache = EmptyCache
    /\ nops = 0
    /\ last = Registration("none", FALSE, "", <<>>, 0, "none")
    /\ req = <<>>

NextUsers ==
    \E complete \in BOOLEAN, username \in UsernameInputs, email \in EmailInputs, n \in PasswordLengths :
        Register(complete, username, email, n)

SpecUsers == InitUsers /\ [][NextUsers]_vars

UsersDistinct(U) ==
    \A i, j \in DOMAIN U : i # j => (U[i].username # U[j].username /\ U[i].email # U[j].email)

WellFormed(r) ==
    r.complete /\ (\E i \in DOMAIN r.email : r.email[i] = "@") /\ r.password_len >= MinPasswordLength

NameOrEmailHeld(U, r) ==
    (\E i \in DOMAIN U : U[i].username = r.username) \/ (\E i \in DOMAIN U : U[i].email = r.email)

----------------------------------------------------------------------------
(* The three in-memory caches of the v3 routes, exercised through their      *)
(* helpers: a store under a key at the current time, and a lookup.  req      *)
(* keeps, for every cache and key, the value of the latest store and the     *)
(* time it was made.                                                         *)

build_plan_list_cache_key(page, per_page, status, public_only) == <<page, per_page, status, public_only>>

get_cached_plan_list_inclusive(c, key, t) ==
    IF key \in DOMAIN c.plan_list_cache /\ c.plan_list_cache[key].expires_at >= t
    THEN <<c.plan_list_cache[key].data>>
    ELSE <<>>

get_cached_plan_list(c, key, t) ==
    IF key \in DOMAIN c.plan_list_cache /\ c.plan_list_cache[key].expires_at > t
    THEN <<c.plan_list_cache[key].data>>
    ELSE <<>>

(* an expired plan list entry is deleted by the lookup that finds it *)
drop_expired_plan_list(c, key, t) ==
    IF key \in DOMAIN c.plan_list_cache /\ c.plan_list_cache[key].expires_at <= t
    THEN [c EXCEPT !.plan_list_cache = DictDel(@, {key})]
    ELSE c

set_cached_plan_list(c, key, data, t) ==
    [c EXCEPT !.plan_list_cache = DictSet(@, key, [data |-> data, expires_at |-> t + CACHE_TTL])]

CacheNames == {"subscription_cache", "subscription_history_cache", "plan_list_cache"}

CacheKeys(name) ==
    CASE name = "subscription_cache" -> {RaceUser}
      [] name = "subscription_history_cache" -> {build_subscription_history_cache_key(RaceUser, 1, 10, "")}
      [] OTHER -> {build_plan_list_cache_key(1, 10, "", TRUE)}

CachedRow == UserSubscription(RaceUser, 1, ACTIVE, 0, NULL, NULL, 0, 30, PAID, 1, TRUE, 0)

CachedValues(name) ==
    CASE name = "subscription_cache" -> {CachedRow, CancelFields(CachedRow, TRUE, 0)}
      [] name = "subscription_history_cache" -> {[rows |-> <<>>, total |-> 0], [rows |-> <<CachedRow>>, total |-> 1]}
      [] OTHER -> {[plans |-> <<>>, total |-> 0], [plans |-> <<1>>, total |-> 1]}

LookupIn(name, c, key, t) ==
    CASE name = "subscription_cache" -> get_cached_active_subscription(c, key, t)
      [] name = "subscription_history_cache" -> get_cached_subscription_history(c, key, t)
      [] OTHER -> get_cached_plan_list(c, key, t)

AfterLookup(name, c, key, t) ==
    CASE name = "subscription_cache" -> c
      [] name = "subscription_history_cache" -> drop_expired_subscription_history(c, key, t)
      [] OTHER -> drop_expired_plan_list(c, key, t)

StoreIn(name, c, key, value, t) ==
    CASE name = "subscription_cache" -> cache_active_subscription(c, key, value, t)
      [] name = "subscription_history_cache" -> set_cached_subscription_history(c, key, value, t)
      [] OTHER -> set_cached_plan_list(c, key, value, t)

CacheCall(op, name, hit, t) == [op |-> op, name |-> name, hit |-> hit, at |-> t]

CacheStore(name, key, value) ==
    /\ cache' = StoreIn(name, cache, key, value, secs)
    /\ req' = [req EXCEPT ![name] = DictSet(@, key, [value |-> value, at |-> secs])]
    /\ last' = CacheCall("store", name, <<value>>, secs)
    /\ UNCHANGED <<app, users, subs, plans, now, secs, nops>>

CacheLookup(name, key) ==
    /\ cache' = AfterLookup(name, cache, key, secs)
    /\ last' = CacheCall("lookup", name, LookupIn(name, cache, key, secs), secs)
    /\ UNCHANGED <<app, users, subs, plans, now, secs, nops, req>>

TtlTicks == {1, CACHE_TTL - 1}

TtlTick(d) ==
    /\ nops < MaxOps
    /\ nops' = nops + 1
    /\ secs' = secs + d
    /\ UNCHANGED <<app, users, cache, subs, plans, now, last, req>>

InitTtl ==
    /\ app = "versioned"
    /\ users = SeedUsers
    /\ plans = CHOOSE c \in Catalogues : TRUE
    /\ subs = <<>>
    /\ now = 0
    /\ secs = 0
    /\ cache = EmptyCache
    /\ nops = 0
    /\ last = CacheCall("none", "", <<>>, 0)
    /\ req = EmptyCache

NextTtl ==
    \/ \E name \in CacheNames : \E key \in CacheKeys(name), value \in CachedValues(name) :
          CacheStore(name, key, value)
    \/ \E name \in CacheNames : \E key \in CacheKeys(name) : CacheLookup(name, key)
    \/ \E d \in TtlTicks : TtlTick(d)

SpecTtl == InitTtl /\ [][NextTtl]_vars

\* C22: a value stored in any of the three caches at time t is returned by
\* lookups under the same key only while now < t + 300 seconds, and the
\* value returned is exactly the value that was stored; a lookup at or
\* after t + 300 seconds is a miss.
C22_CacheTtl ==
    \A name \in CacheNames : \A key \in CacheKeys(name) :
        LET hit == LookupIn(name, cache, key, secs) IN
        /\ hit # <<>>
            => /\ key \in DOMAIN req[name]
               /\ secs < req[name][key].at + 300
               /\ hit[1] = req[name][key].value
        /\ (key \in DOMAIN req[name] /\ secs >= req[name][key].at + 300) => hit = <<>>

C22_Witness ==
    /\ last.op = "lookup"
    /\ last.name = "plan_list_cache"
    /\ last.at = secs
    /\ last.hit # <<>>
    /\ \E key \in CacheKeys("plan_list_cache") :
          /\ key \in DOMAIN req.plan_list_cache
          /\ req.plan_list_cache[key].at = 1
          /\ secs = CACHE_TTL

----------------------------------------------------------------------------
(* Two cached reads of v3 running in threads beside one v3 mutation.  The    *)
(* caches are module-level dicts shared by the threads and are used without  *)
(* a lock.  A read is three steps: the lookup, on a miss the query, then the *)
(* store of what the query returned.  A mutation is two: the commit, then    *)
(* the invalidation, after which the response is sent.                       *)

ReaderKinds == {"active", "history", "plans"}

WriterKinds == {"cancel", "create_plan"}

CacheOf(kind) ==
    CASE kind = "active" -> "subscription_cache"
      [] kind = "history" -> "subscription_history_cache"
      [] OTHER -> "plan_list_cache"

KeyOf(kind) ==
    CASE kind = "active" -> RaceUser
      [] kind = "history" -> build_subscription_history_cache_key(RaceUser, 1, 10, "")
      [] OTHER -> build_plan_list_cache_key(1, 10, "", TRUE)

(* what the handler's query returns from the store as it is now *)
QueryResults(kind, S, P) ==
    CASE kind = "active" -> {S[i] : i \in ActiveRows(S, RaceUser)}
      [] kind = "history" ->
           {[rows |-> [k \in DOMAIN paginate(order, 1, 10).items |-> S[paginate(order, 1, 10).items[k]]],
             total |-> paginate(order, 1, 10).total] :
               order \in NewestFirst(S, HistoryMatches("v3", S, RaceUser, <<>>, NULL, NULL))}
      [] OTHER -> {[plans |-> P, total |-> Len(P)]}

Reader(kind) == [kind |-> kind, pc |-> "lookup", value |-> <<>>, cached |-> FALSE]

Writer(kind) == [kind |-> kind, pc |-> "commit"]

ReadLookup(r) ==
    LET me == req[r]
        hit == LookupIn(CacheOf(me.kind), cache, KeyOf(me.kind), secs)
    IN
    /\ me.pc = "lookup"
    /\ cache' = AfterLookup(CacheOf(me.kind), cache, KeyOf(me.kind), secs)
    /\ req' = [req EXCEPT ![r] = IF hit # <<>>
                                 THEN [me EXCEPT !.pc = "done", !.value = hit, !.cached = TRUE]
                                 ELSE [me EXCEPT !.pc = "query"]]
    /\ UNCHANGED <<app, users, subs, plans, now, secs, nops, last>>

ReadQuery(r) ==
    LET me == req[r]
        found == QueryResults(me.kind, subs, plans)
    IN
    /\ me.pc = "query"
    /\ IF found = {}
       THEN req' = [req EXCEPT ![r].pc = "done"]
       ELSE \E v \in found : req' = [req EXCEPT ![r].pc = "store", ![r].value = <<v>>]
    /\ UNCHANGED <<app, users, subs, plans, now, secs, cache, nops, last>>

ReadStore(r) ==
    LET me == req[r] IN
    /\ me.pc = "store"
    /\ cache' = StoreIn(CacheOf(me.kind), cache, KeyOf(me.kind), me.value[1], secs)
    /\ req' = [req EXCEPT ![r].pc = "done"]
    /\ UNCHANGED <<app, users, subs, plans, now, secs, nops, last>>

WriteCommit(w) ==
    /\ req[w].pc = "commit"
    /\ IF req[w].kind = "cancel"
       THEN /\ \E i \in ActiveRows(subs, RaceUser) :
                 subs' = Update(subs, i, CancelFields(subs[i], FALSE, now))
            /\ plans' = plans
       ELSE /\ plans' = Append(plans, NamedPlan("Pro", MONTHLY, 1, PLAN_ACTIVE))
            /\ subs' = subs
    /\ req' = [req EXCEPT ![w].pc = "invalidate"]
    /\ UNCHANGED <<app, users, now, secs, cache, nops, last>>

WriteInvalidate(w) ==
    /\ req[w].pc = "invalidate"
    /\ cache' = IF req[w].kind = "cancel" THEN Invalidated("v3", RaceUser)
                ELSE invalidate_plan_list_cache(cache)
    /\ req' = [req EXCEPT ![w].pc = "done"]
    /\ nops' = nops + 1
    /\ last' = Done(req[w].kind, "v3", RaceUser, 0, 0, FALSE, Ok, 0)
    /\ UNCHANGED <<app, users, subs, plans, now, secs>>

StaleReaders == {"r1", "r2"}

InitStale ==
    /\ app = "versioned"
    /\ users = SeedUsers
    /\ plans = <<NamedPlan("Basic", MONTHLY, 1, PLAN_ACTIVE)>>
    /\ subs = Insert(<<>>, NewSubscriptionV3(RaceUser, 1, TRUE, 0))
    /\ now = 0
    /\ secs = 0
    /\ cache = EmptyCache
    /\ nops = 0
    /\ last = NoOp
    /\ \E k1 \in ReaderKinds, k2 \in ReaderKinds, kw \in WriterKinds :
          req = [r1 |-> Reader(k1), r2 |-> Reader(k2), w |-> Writer(kw)]

NextStale ==
    \/ \E r \in StaleReaders : ReadLookup(r)
    \/ \E r \in StaleReaders : ReadQuery(r)
    \/ \E r \in StaleReaders : ReadStore(r)
    \/ WriteCommit("w")
    \/ WriteInvalidate("w")

SpecStale == InitStale /\ [][NextStale]_vars

\* C21: when a cached read (v3 GetActive, GetHistory or ListPlans) runs
\* concurrently with a mutation (commit, then invalidate), no interleaving
\* leaves a cache entry holding pre-mutation data once the mutation has been
\* acknowledged: every entry a lookup would return is what the query returns
\* from the store.
C21_NoStaleEntryAfterWrite ==
    req.w.pc = "done"
        => \A kind \in ReaderKinds :
              LET hit == LookupIn(CacheOf(kind), cache, KeyOf(kind), secs) IN
              hit # <<>> => hit[1] \in QueryResults(kind, subs, plans)

----------------------------------------------------------------------------
\* C34: the model method cancel(at_period_end=True) sets
\* cancel_at_period_end = true and auto_renew = false and leaves status,
\* canceled_at and end_date unchanged (canceled_at stays null on a
\* subscription never canceled before); cancel(at_period_end=False) is the
\* call that sets canceled_at and end_date, both to now.
C34_ModelCancelFrame ==
    [][/\ (Step("cancel") /\ last'.flag)
          => /\ obj'.cancel_at_period_end = TRUE
             /\ obj'.auto_renew = FALSE
             /\ obj'.status = obj.status
             /\ obj'.canceled_at = obj.canceled_at
             /\ obj'.end_date = obj.end_date
       /\ (Step("cancel") /\ ~last'.flag)
          => /\ obj'.canceled_at = now
             /\ obj'.end_date = now]_vars

C34_Witness ==
    /\ last.op = "cancel"
    /\ last.flag
    /\ obj.status = ACTIVE
    /\ obj.cancel_at_period_end
    /\ ~obj.auto_renew
    /\ obj.canceled_at = NULL
    /\ obj.end_date = NULL

----------------------------------------------------------------------------
(* The two implementations of the expiring-subscriptions listing: the        *)
(* classmethod UserSubscription.get_expiring_subscriptions (one filtered     *)
(* query) and get_expiring_subscriptions of sql_optimizations, which         *)
(* selects on status and auto_renew and then, row by row, compares the       *)
(* day of the month of current_period_end with the day of the month of now   *)
(* and cuts the list to one or two entries.  A result is the sequence of     *)
(* the ids of the rows returned, in id order.                                *)

MaxExpiring == 2

ExpiringDays == {3, 7, 10}

ExpiringNow == {0, 27}

PeriodEndInputs == {NULL, 5, 9, 40}

ExpiringRow(status, auto_renew, current_period_end) ==
    Stored(UserSubscription(1, 1, status, 0, NULL, NULL, 0, current_period_end, PAID, 1, auto_renew, 0))

ExpiringRows ==
    {ExpiringRow(status, auto_renew, e) : status \in {ACTIVE, CANCELED}, auto_renew \in BOOLEAN, e \in PeriodEndInputs}

RECURSIVE SeqsUpTo(_, _)
SeqsUpTo(R, n) ==
    IF n = 0 THEN {<<>>}
    ELSE SeqsUpTo(R, n - 1) \cup {Append(s, r) : s \in {x \in SeqsUpTo(R, n - 1) : Len(x) = n - 1}, r \in R}

Ids(S) == [i \in 1 .. Len(S) |-> i]

orm_get_expiring_subscriptions(S, days, t) ==
    SelectSeq(Ids(S), LAMBDA i : /\ S[i].status = ACTIVE
                                 /\ S[i].current_period_end # NULL
                                 /\ S[i].current_period_end <= t + days
                                 /\ S[i].auto_renew = FALSE)

DayDiff(S, i, t) == DayOf(S[i].current_period_end) - DayOf(t)

raw_get_expiring_subscriptions(S, days, t) ==
    LET results == SelectSeq(Ids(S), LAMBDA i : S[i].status = ACTIVE /\ S[i].auto_renew = FALSE)
        subscriptions ==
            SelectSeq(results, LAMBDA i :
                /\ S[i].current_period_end # NULL
                /\ \/ (days >= 7 /\ DayDiff(S, i, t) <= 7)
                   \/ (days >= 10 /\ 7 < DayDiff(S, i, t) /\ DayDiff(S, i, t) <= 10))
    IN SubSeq(subscriptions, 1, Min(Len(subscriptions), IF days <= 7 THEN 1 ELSE 2))

Listed(op, days, items) == [op |-> op, days |-> days, items |-> items]

Expiring_orm ==
    /\ nops < MaxOps
    /\ nops' = nops + 1
    /\ last' = Listed("orm", req.days, orm_get_expiring_subscriptions(subs, req.days, now))
    /\ UNCHANGED <<app, users, subs, plans, now, secs, cache, req>>

Expiring_raw ==
    /\ nops < MaxOps
    /\ nops' = nops + 1
    /\ last' = Listed("raw", req.days, raw_get_expiring_subscriptions(subs, req.days, now))
    /\ UNCHANGED <<app, users, subs, plans, now, secs, cache, req>>

InitExpiring ==
    /\ app = "versioned"
    /\ users = SeedUsers
    /\ plans = CHOOSE c \in Catalogues : TRUE
    /\ subs \in SeqsUpTo(ExpiringRows, MaxExpiring)
    /\ now \in ExpiringNow
    /\ secs = 0
    /\ cache = EmptyCache
    /\ nops = 0
    /\ last = Listed("none", 0, <<>>)
    /\ \E days \in ExpiringDays : req = [days |-> days]

NextExpiring ==
    \/ Expiring_orm
    \/ Expiring_raw

SpecExpiring == InitExpiring /\ [][NextExpiring]_vars

ClaimedExpiring(S, days, t) ==
    {i \in DOMAIN S : /\ S[i].status = ACTIVE
                      /\ S[i].auto_renew = FALSE
                      /\ S[i].current_period_end # NULL
                      /\ S[i].current_period_end <= t + days}

\* C32: get_expiring_subscriptions(days) returns exactly the subscriptions
\* with status ACTIVE, auto_renew = false and current_period_end no later
\* than now + days, every such subscription and no other, in the raw-SQL
\* implementation as in the ORM implementation, for every days value.
C32_ExpiringSameSet ==
    last.op \in {"orm", "raw"} => Elems(last.items) = ClaimedExpiring(subs, last.days, now)

(***************************************************************************)
(* Authentication: login, token refresh, logout and the revocation list.  *)
(* req holds the setting JWT_BLACKLIST_ENABLED, the tokens issued so far  *)
(* and the rows of token_blacklist.  A token is identified by its position *)
(* in the sequence of issued tokens, which is its jti.                    *)
(***************************************************************************)
MaxAuthOps == 3

MaxTokens == 4

Revoked == "Revoked"

WrongTokenType == "WrongTokenType"

InvalidCredentials == "InvalidCredentials"

AccessToken == "access"

RefreshToken == "refresh"

(* a set of additional claims is a set of pairs of a name and a value     *)
NoClaims == {}

claims_get(claims, key, default) ==
    IF \E c \in claims : c[1] = key THEN (CHOOSE c \in claims : c[1] = key)[2] ELSE default

Token(jti, type, identity, claims) == [jti |-> jti, type |-> type, identity |-> identity, claims |-> claims]

create_access_token(jti, identity, additional_claims) == Token(jti, AccessToken, identity, additional_claims)

create_refresh_token(jti, identity, additional_claims) == Token(jti, RefreshToken, identity, additional_claims)

is_token_revoked(blacklist, jti) == \E row \in blacklist : row.jti = jti

add_token_to_blacklist(blacklist, jti, token_type, user_id) ==
    blacklist \cup {[jti |-> jti, token_type |-> token_type, user_id |-> user_id]}

check_if_token_revoked_never(blacklist, jwt_payload) == FALSE

check_if_token_revoked(blacklist, jwt_payload) == is_token_revoked(blacklist, jwt_payload.jti)

(* the verification made by jwt_required: the type of the token, then the  *)
(* revocation list when create_app registered its loader                  *)
jwt_required(st, k, refresh) ==
    IF st.tokens[k].type # (IF refresh THEN RefreshToken ELSE AccessToken) THEN WrongTokenType
    ELSE IF st.enabled /\ check_if_token_revoked(st.blacklist, st.tokens[k]) THEN Revoked
    ELSE Ok

admin_required(st, k) ==
    IF claims_get(st.tokens[k].claims, "is_admin", FALSE) THEN Ok ELSE Forbidden

AuthDone(op, token, privileged, result, issued) ==
    [op |-> op, token |-> token, privileged |-> privileged, result |-> result, issued |-> issued]

AuthFrame == UNCHANGED <<app, users, subs, plans, now, secs, cache>>

Login(u, password_ok) ==
    LET n == Len(req.tokens)
        additional_claims == {<<"is_admin", users[u].is_admin>>}
        access_token == create_access_token(n + 1, u, additional_claims)
        refresh_token == create_refresh_token(n + 2, u, additional_claims) IN
    /\ nops < MaxAuthOps
    /\ nops' = nops + 1
    /\ password_ok => n + 2 <= MaxTokens
    /\ req' = IF password_ok THEN [req EXCEPT !.tokens = req.tokens \o <<access_token, refresh_token>>] ELSE req
    /\ last' = AuthDone("Login", 0, FALSE, IF password_ok THEN Ok ELSE InvalidCredentials, IF password_ok THEN <<n + 1, n + 2>> ELSE <<>>)
    /\ AuthFrame

TokenRefresh(k) ==
    LET n == Len(req.tokens)
        verified == jwt_required(req, k, TRUE)
        current_user == req.tokens[k].identity
        new_access_token == create_access_token(n + 1, current_user, NoClaims) IN
    /\ nops < MaxAuthOps
    /\ nops' = nops + 1
    /\ verified = Ok => n + 1 <= MaxTokens
    /\ req' = IF verified = Ok THEN [req EXCEPT !.tokens = Append(req.tokens, new_access_token)] ELSE req
    /\ last' = AuthDone("Refresh", k, FALSE, verified, IF verified = Ok THEN <<n + 1>> ELSE <<>>)
    /\ AuthFrame

UserLogout(k) ==
    LET verified == jwt_required(req, k, FALSE)
        jti == req.tokens[k].jti
        user_id == req.tokens[k].identity IN
    /\ nops < MaxAuthOps
    /\ nops' = nops + 1
    /\ req' = IF verified = Ok /\ req.enabled
              THEN [req EXCEPT !.blacklist = add_token_to_blacklist(req.blacklist, jti, AccessToken, user_id)]
              ELSE req
    /\ last' = AuthDone("Logout", k, FALSE, verified, <<>>)
    /\ AuthFrame

(* a request to an endpoint behind jwt_required, and behind admin_required *)
(* when it is a privileged one                                            *)
Protected(k, privileged) ==
    LET verified == jwt_required(req, k, FALSE)
        result == IF verified # Ok THEN verified ELSE IF privileged THEN admin_required(req, k) ELSE Ok IN
    /\ nops < MaxAuthOps
    /\ nops' = nops + 1
    /\ req' = req
    /\ last' = AuthDone("Protected", k, privileged, result, <<>>)
    /\ AuthFrame

InitAuth ==
    /\ app = "versioned"
    /\ users = SeedUsers
    /\ subs = <<>>
    /\ plans = <<>>
    /\ now = 0
    /\ secs = 0
    /\ cache = EmptyCache
    /\ nops = 0
    /\ last = AuthDone("none", 0, FALSE, "none", <<>>)
    /\ req \in [enabled : BOOLEAN, tokens : {<<>>}, blacklist : {{}}]

NextAuth ==
    \/ \E u \in Users, password_ok \in BOOLEAN : Login(u, password_ok)
    \/ \E k \in DOMAIN req.tokens : TokenRefresh(k)
    \/ \E k \in DOMAIN req.tokens : UserLogout(k)
    \/ \E k \in DOMAIN req.tokens, privileged \in BOOLEAN : Protected(k, privileged)

SpecAuth == InitAuth /\ [][NextAuth]_vars

(* C31: when the revocation list is enabled, a successful Logout puts the *)
(* access token on the list and every later request presenting a token of *)
(* the list is rejected, as revoked at every endpoint that takes access   *)
(* tokens; when it is disabled, Logout succeeds and changes no state.     *)
C31_LogoutRevokes ==
    [][/\ (Step("Logout") /\ last'.result = Ok /\ req.enabled) => is_token_revoked(req'.blacklist, req.tokens[last'.token].jti)
       /\ (Step("Logout") /\ last'.result = Ok /\ ~req.enabled) => (req' = req /\ users' = users /\ subs' = subs /\ plans' = plans /\ cache' = cache)
       /\ \A row \in req.blacklist : row \in req'.blacklist
       /\ (req.enabled /\ nops' = nops + 1 /\ last'.token \in DOMAIN req.tokens /\ is_token_revoked(req.blacklist, req.tokens[last'.token].jti))
              => (/\ last'.result # Ok
                  /\ last'.op \in {"Logout", "Protected"} => last'.result = Revoked
                  /\ req' = req)]_vars

(* a request is rejected as revoked after a logout, and a logout has      *)
(* succeeded with the list disabled                                       *)
C31_Witness ==
    /\ req.enabled
    /\ last.op = "Protected"
    /\ last.result = Revoked
    /\ is_token_revoked(req.blacklist, last.token)

(* C36: the access token issued by Refresh carries the claims of the      *)
(* credential of Login that was presented, so also its is_admin           *)
(* assertion, and an administrator who presents an access token to a      *)
(* privileged endpoint is not refused for lack of privileges.             *)
C36_RefreshKeepsClaims ==
    /\ (last.op = "Refresh" /\ last.result = Ok) => claims_get(req.tokens[last.issued[1]].claims, "is_admin", FALSE) = claims_get(req.tokens[last.token].claims, "is_admin", FALSE)
    /\ (last.op = "Protected" /\ last.privileged /\ users[req.tokens[last.token].identity].is_admin) => last.result # Forbidden

(***************************************************************************)
(* The whole set of writing operations over one store: the subscription   *)
(* endpoints, the model's lifecycle methods and the administrator's plan   *)
(* update and plan delete.                                                *)
(***************************************************************************)
InitHistory ==
    /\ app \in {"versioned", "legacy"}
    /\ plans = <<NamedPlan("Basic", MONTHLY, 1, PLAN_ACTIVE), NamedPlan("Pro", ANNUAL, 12, PLAN_ACTIVE)>>
    /\ subs = <<>>
    /\ users = SeedUsers
    /\ now = 0
    /\ secs = 0
    /\ cache = EmptyCache
    /\ nops = 0
    /\ last = NoOp
    /\ req = PlanBody("", "")

NextHistory ==
    \/ Next
    \/ \E api \in PlanApis, adm \in BOOLEAN, p \in PlanInputs, interval \in PlanIntervalInputs :
          app = "versioned" /\ UpdatePlan(api, adm, p, "Pro", interval)
    \/ \E api \in Apis, adm \in BOOLEAN, p \in PlanInputs : DeletePlan(api, adm, p)

SpecHistory == InitHistory /\ [][NextHistory]_vars

(* the ids of the subscription records of user u *)
HistoryIds(S, u) == {i \in DOMAIN S : S[i].user_id = u}

(* C33: no operation removes a subscription record: over every step the   *)
(* set of subscription ids in the history of every user only grows.       *)
C33_HistoryOnlyGrows ==
    [][\A u \in Users : HistoryIds(subs, u) \subseteq HistoryIds(subs', u)]_vars

(* a plan has been deleted, and a subscription has been cancelled, while   *)
(* the store holds the subscription record                                *)
C33_Witness ==
    /\ last.op \in {"DeletePlan", "Cancel"}
    /\ last.result \in {Deleted, Ok}
    /\ \E u \in Users : HistoryIds(subs, u) # {}

(* the period ends the endpoints compute from the duration or interval of  *)
(* plan p at the time t of the request                                    *)
RecomputedEnds(p, t) ==
    {AddMonths(t, plans[p].duration_months), t + PeriodDaysV1(plans[p].interval), t + 30 * plans[p].duration_months}

(* C35: in every API version that offers it, a successful Upgrade to a    *)
(* plan of another duration or interval leaves current_period_end and     *)
(* end_date recomputed from the duration of the new plan.                 *)
C35_UpgradeRecomputesPeriod ==
    [][(/\ Step("Upgrade")
        /\ last'.result = Ok
        /\ \/ plans[subs[last'.sub].plan_id].duration_months # plans[last'.plan].duration_months
           \/ plans[subs[last'.sub].plan_id].interval # plans[last'.plan].interval)
        => /\ subs'[last'.sub].current_period_end \in RecomputedEnds(last'.plan, now)
           /\ subs'[last'.sub].end_date \in RecomputedEnds(last'.plan, now)]_vars

(***************************************************************************)
(* Concurrent requests over one store, each split into the reads its      *)
(* handler makes and the flush and commit that follow.  The table          *)
(* user_subscriptions carries FOREIGN KEY (plan_id) REFERENCES             *)
(* subscription_plans (id) with no ON DELETE rule: the store refuses an    *)
(* insert or update whose plan_id has no row, and the delete of a plan     *)
(* that a row refers to.                                                   *)
(***************************************************************************)
FkKinds == {"Subscribe", "Upgrade", "DeletePlan"}

FkPlans == {1, 2}

FkRequest(kind, api, u, p) ==
    [kind |-> kind, api |-> api, user |-> u, plan |-> p, pc |-> "check", result |-> "none", sub |-> 0]

ForeignKeyHolds_unchecked(P, p) == TRUE

ForeignKeyHolds(P, p) == p \in DOMAIN P /\ P[p] # NoPlan

DeletePlanRead(api, S, p) ==
    IF p \notin PlanIds THEN PlanNotFound
    ELSE IF api = "legacy" /\ ActiveReferences(S, p) # {} THEN PlanInUse
    ELSE Ok

FkFinish(r, result) == req' = [req EXCEPT ![r].pc = "done", ![r].result = result]

FkProceed(r, i) == req' = [req EXCEPT ![r].pc = "write", ![r].sub = i]

(* the queries of the handler, up to its first write *)
FkCheck(r) ==
    LET q == req[r] IN
    /\ q.pc = "check"
    /\ CASE q.kind = "Subscribe" ->
              LET result == SubscribeCheck(q.api, subs, q.user, q.plan, 0) IN
              IF result = Created THEN FkProceed(r, 0) ELSE FkFinish(r, result)
         [] q.kind = "Upgrade" ->
              LET result == UpgradeCheck(q.api, subs, q.user, q.plan) IN
              IF result # Ok THEN FkFinish(r, result)
              ELSE \E i \in ActiveRows(subs, q.user) :
                     IF subs[i].plan_id = q.plan THEN FkFinish(r, SamePlan) ELSE FkProceed(r, i)
         [] q.kind = "DeletePlan" ->
              LET result == DeletePlanRead(q.api, subs, q.plan) IN
              IF result = Ok THEN FkProceed(r, 0) ELSE FkFinish(r, result)
    /\ UNCHANGED <<app, users, secs, cache, subs, plans, now, nops, last>>

(* the flush and commit of the handler *)
FkWrite(r) ==
    LET q == req[r] IN
    /\ q.pc = "write"
    /\ CASE q.kind = "Subscribe" ->
              IF ForeignKeyHolds(plans, q.plan)
              THEN /\ subs' = Insert(subs, NewSubscription(q.api, q.user, q.plan, 0, 1, TRUE, now))
                   /\ cache' = Invalidated(q.api, q.user)
                   /\ FkFinish(r, Created)
                   /\ plans' = plans
              ELSE FkFinish(r, InternalError) /\ UNCHANGED <<subs, plans, cache>>
         [] q.kind = "Upgrade" ->
              IF ForeignKeyHolds(plans, q.plan)
              THEN /\ subs' = Update(subs, q.sub, UpgradeFields(q.api, subs[q.sub], q.plan, now))
                   /\ cache' = Invalidated(q.api, q.user)
                   /\ FkFinish(r, Ok)
                   /\ plans' = plans
              ELSE FkFinish(r, InternalError) /\ UNCHANGED <<subs, plans, cache>>
         [] q.kind = "DeletePlan" ->
              IF References(subs, q.plan) = {}
              THEN /\ plans' = [plans EXCEPT ![q.plan] = NoPlan]
                   /\ cache' = IF q.api = "v3" THEN invalidate_plan_list_cache(cache) ELSE cache
                   /\ FkFinish(r, Deleted)
                   /\ subs' = subs
              ELSE FkFinish(r, InternalError) /\ UNCHANGED <<subs, plans, cache>>
    /\ UNCHANGED <<app, users, secs, now, nops, last>>

InitFk ==
    /\ app \in {"versioned", "legacy"}
    /\ plans \in Catalogues
    /\ subs \in {<<>>, Insert(<<>>, NewSubscription(IF app = "versioned" THEN "v1" ELSE "legacy", RaceUser, 1, 0, 1, TRUE, 0))}
    /\ users = SeedUsers
    /\ now = 0
    /\ secs = 0
    /\ cache = EmptyCache
    /\ nops = 0
    /\ last = NoOp
    /\ \E k1 \in FkKinds, k2 \in FkKinds, a1 \in Apis, a2 \in Apis, p1 \in FkPlans, p2 \in FkPlans :
         req = <<FkRequest(k1, a1, RaceUser, p1), FkRequest(k2, a2, RaceUser, p2)>>

NextFk ==
    \/ \E r \in Requests : FkCheck(r)
    \/ \E r \in Requests : FkWrite(r)

SpecFk == InitFk /\ [][NextFk]_vars

(* C37: in every state, under every interleaving of DeletePlan with a      *)
(* concurrent Subscribe or Upgrade of the same plan, the plan_id of each   *)
(* subscription is the id of a plan that exists.                          *)
C37_PlanExists ==
    \A i \in DOMAIN subs : subs[i].plan_id \in PlanIds

(* a DeletePlan has removed the plan between the reads and the write of a  *)
(* Subscribe or Upgrade of that plan, which then failed                   *)
C37_Witness ==
    \E r \in Requests, d \in Requests :
        /\ req[d].kind = "DeletePlan"
        /\ req[d].result = Deleted
        /\ req[r].kind \in {"Subscribe", "Upgrade"}
        /\ req[r].plan = req[d].plan
        /\ req[r].result = InternalError

(***************************************************************************)
(* GET /subscriptions/active in the three versions over one store: v1 and *)
(* v3 filter on user_id and status ACTIVE, v3 behind its cache; v2 runs   *)
(* get_user_active_subscription.  req holds the user under study and the  *)
(* latest answer each version gave.                                       *)
(***************************************************************************)
ActiveApis == {"v1", "v2", "v3"}

(* the rows the query of the version may return; 0 stands for not found   *)
ActiveCandidates(api, S, u, t) ==
    IF api = "v2" THEN get_active_subscription(S, u, t)
    ELSE IF ActiveRows(S, u) = {} THEN {0} ELSE ActiveRows(S, u)

ActiveAnswer(api, u, result, sub, cached, t) ==
    [op |-> "GetActive", api |-> api, user |-> u, result |-> result, sub |-> sub, cached |-> cached, at |-> t]

NoActiveAnswer == [op |-> "none", api |-> "none", user |-> 0, result |-> "none", sub |-> 0, cached |-> FALSE, at |-> 0]

ActiveSubscription_get(api, u) ==
    LET hit == IF api = "v3" THEN get_cached_active_subscription(cache, u, secs) ELSE <<>> IN
    /\ IF hit # <<>>
       THEN \E i \in {j \in DOMAIN subs : subs[j] = hit[1]} :
              /\ last' = ActiveAnswer(api, u, Ok, i, TRUE, now)
              /\ cache' = cache
       ELSE \E i \in ActiveCandidates(api, subs, u, now) :
              /\ last' = ActiveAnswer(api, u, IF i = 0 THEN NoActiveSubscription ELSE Ok, i, FALSE, now)
              /\ cache' = IF api = "v3" /\ i # 0 THEN cache_active_subscription(cache, u, subs[i], secs) ELSE cache
    /\ req' = [req EXCEPT !.answers[api] = last']
    /\ UNCHANGED <<app, users, secs, subs, plans, now, nops>>

AgreeTick(d) ==
    /\ now + d <= MaxNow
    /\ now' = now + d
    /\ UNCHANGED <<app, users, secs, cache, subs, plans, nops, last, req>>

InitAgree ==
    /\ app = "versioned"
    /\ subs \in QueryStores
    /\ plans = CHOOSE c \in Catalogues : TRUE
    /\ users = SeedUsers
    /\ now = 0
    /\ secs = 0
    /\ cache = EmptyCache
    /\ nops = 0
    /\ last = NoActiveAnswer
    /\ req \in [user : Users, answers : {[v1 |-> NoActiveAnswer, v2 |-> NoActiveAnswer, v3 |-> NoActiveAnswer]}]

NextAgree ==
    \/ \E api \in ActiveApis : ActiveSubscription_get(api, req.user)
    \/ \E d \in TickDays : AgreeTick(d)

SpecAgree == InitAgree /\ [][NextAgree]_vars

(* C38: for every store and user the answers of the v1, v2 and v3         *)
(* GetActive endpoints given at one time, v3 not answering from its       *)
(* cache, agree on found against not-found, and a subscription one of     *)
(* them returns is one each of the others may return.                     *)
C38_GetActiveAgree ==
    \A a \in ActiveApis, b \in ActiveApis :
        LET x == req.answers[a]
            y == req.answers[b] IN
        (x.op = "GetActive" /\ y.op = "GetActive" /\ x.at = now /\ y.at = now /\ ~x.cached /\ ~y.cached)
          => /\ (x.result = Ok) <=> (y.result = Ok)
             /\ x.result = Ok => x.sub \in ActiveCandidates(b, subs, req.user, now)

(* C39: the total and pages returned by get_subscription_history and      *)
(* get_public_plans depend on the filters and the page size only: for     *)
(* every page k >= 1, pages past the last one included, total is the      *)
(* number of rows matching the filters and pages the number of pages      *)
(* they fill.                                                             *)
C39_TotalIndependentOfPage ==
    (last.op \in {"get_subscription_history", "get_public_plans"})
      => /\ last.total = req.total
         /\ last.pages = Ceil(req.total, req.per_page)

(***************************************************************************)
(* The per-user caches of the v3 routes under stores, lookups and         *)
(* invalidations for users whose ids share decimal prefixes.              *)
(***************************************************************************)
MaxKeyOps == 3

KeyUsers == {1, 10, 11}

KeyPages == {1, 2}

LastKeyUser == CHOOSE m \in KeyUsers : \A u \in KeyUsers : u <= m

KeyRow(u) == QueryRow(u, ACTIVE, 0, NULL, NULL)

KeyData(u) == [rows |-> <<KeyRow(u)>>, total |-> 1]

KeyDone(op, u, page, hit) == [op |-> op, user |-> u, page |-> page, hit |-> hit]

KeyStep(op, u, page, hit, c) ==
    /\ nops < MaxKeyOps
    /\ nops' = nops + 1
    /\ cache' = c
    /\ last' = KeyDone(op, u, page, hit)
    /\ UNCHANGED <<app, users, subs, plans, now, secs, req>>

KeyStoreActive(u) == KeyStep("StoreActive", u, 0, <<>>, cache_active_subscription(cache, u, KeyRow(u), secs))

KeyStoreHistory(u, page) ==
    KeyStep("StoreHistory", u, page, <<>>, set_cached_subscription_history(cache, build_subscription_history_cache_key(u, page, 10, ""), KeyData(u), secs))

KeyInvalidate(u) == KeyStep("Invalidate", u, 0, <<>>, Invalidated("v3", u))

KeyLookupActive(u) == KeyStep("LookupActive", u, 0, get_cached_active_subscription(cache, u, secs), cache)

KeyLookupHistory(u, page) ==
    LET key == build_subscription_history_cache_key(u, page, 10, "") IN
    KeyStep("LookupHistory", u, page, get_cached_subscription_history(cache, key, secs), drop_expired_subscription_history(cache, key, secs))

InitKeys ==
    /\ app = "versioned"
    /\ users = [i \in 1 .. LastKeyUser |-> User(Str(i), Email(Str(i), "example.com"))]
    /\ subs = <<>>
    /\ plans = CHOOSE c \in Catalogues : TRUE
    /\ now = 0
    /\ secs = 0
    /\ cache = EmptyCache
    /\ nops = 0
    /\ last = KeyDone("none", 0, 0, <<>>)
    /\ req = <<>>

NextKeys ==
    \/ \E u \in KeyUsers : KeyStoreActive(u)
    \/ \E u \in KeyUsers, page \in KeyPages : KeyStoreHistory(u, page)
    \/ \E u \in KeyUsers : KeyInvalidate(u)
    \/ \E u \in KeyUsers : KeyLookupActive(u)
    \/ \E u \in KeyUsers, page \in KeyPages : KeyLookupHistory(u, page)

SpecKeys == InitKeys /\ [][NextKeys]_vars

(* the history cache keys of user u *)
KeysOf(u) == {build_subscription_history_cache_key(u, page, 10, "") : page \in KeyPages}

(* C40: invalidating the subscription caches for user u leaves the        *)
(* active-subscription entry and the history entries of every other user  *)
(* as they were, also those of users whose id has the id of u as a        *)
(* decimal prefix, and a lookup for a user returns only an entry stored   *)
(* for that user.                                                         *)
C40_InvalidationFrame ==
    [][/\ Step("Invalidate") =>
            \A v \in KeyUsers \ {last'.user} :
                /\ v \in DOMAIN cache.subscription_cache
                     => (v \in DOMAIN cache'.subscription_cache /\ cache'.subscription_cache[v] = cache.subscription_cache[v])
                /\ \A k \in KeysOf(v) :
                     k \in DOMAIN cache.subscription_history_cache
                       => (k \in DOMAIN cache'.subscription_history_cache
                           /\ cache'.subscription_history_cache[k] = cache.subscription_history_cache[k])
       /\ (Step("LookupActive") /\ last'.hit # <<>>) => last'.hit[1].user_id = last'.user
       /\ (Step("LookupHistory") /\ last'.hit # <<>>) => \A i \in DOMAIN last'.hit[1].rows : last'.hit[1].rows[i].user_id = last'.user]_vars

(* the caches of user 1 have been invalidated while user 10 holds an       *)
(* active-subscription entry and a history entry                          *)
C40_Witness ==
    /\ last.op = "Invalidate"
    /\ last.user = 1
    /\ 10 \in DOMAIN cache.subscription_cache
    /\ \E k \in KeysOf(10) : k \in DOMAIN cache.subscription_history_cache

====
